---------------------------- MODULE Spec2Model ----------------------------
(***************************************************************************)
(* Asset resolution, decryption and merge pipeline of PeraPera.            *)
(*                                                                         *)
(*   extractor.py     merge_translations, extract_asset_data,              *)
(*                    process_asset, run                                   *)
(*   asset_loader.py  create_asset_final_key, decrypt_asset_data, the      *)
(*                    walkers, AssetManager                                *)
(*   common.py        StoryId.parse_from_path                              *)
(*                                                                         *)
(* Texts are sequences of one-character strings, bytes are 0..255.         *)
(***************************************************************************)
EXTENDS Integers, Sequences, FiniteSets, TLC

VARIABLES
    \* ---- merge_translations (extractor.py) ----
    new_data,       \* text_blocks of the document handed to merge_translations
    existing,       \* the file at existing_tl_path: [exists, text_blocks]
    new_before,     \* text_blocks of new_data when merge_translations was called
    matched,        \* indices of the new blocks that took the copy branch (line 50)
    merge_pc,       \* "ready" before the call, "merged" after it returned
    \* ---- create_asset_final_key / decrypt_asset_data (asset_loader.py) ----
    raw_data,       \* the payload as read from the content store
    bundle_key,     \* the asset's integer cipher key
    final_key,      \* the keystream in use
    key_origin,     \* "given": any keystream, "derived": create_asset_final_key's
    processed_data, \* the buffer after the decrypt calls made so far
    prev_data,      \* the buffer handed to the last decrypt_asset_data call
    used_keys,      \* the keystream of each decrypt_asset_data call, in order
    rounds,         \* number of decrypt_asset_data calls applied to raw_data
    \* ---- process_asset (extractor.py) ----
    asset_type,     \* key of PARSER_MAP
    bundle,         \* the asset's bundle: [loads, texts], texts the source texts in it
    workspace_file, \* the workspace record on disk: [exists, text_blocks]
    workspace_prev, \* the workspace record when process_asset was last called
    mod_file,       \* the mod output file on disk: [exists, format, text_blocks]
    last_call,      \* [update, overwrite] flags of the last process_asset call
    status,         \* outcome of the last process_asset call
    \* ---- parse_story_timeline (asset_loader.py) ----
    block_list,     \* BlockList of the timeline asset, the text clip of each block
    block_idx,      \* position of the loop over block_list[1:]; 0 before the call
    global_cue_offset, \* the walker's running offset
    timeline_blocks,   \* extracted_data["text_blocks"] so far
    cue_log,        \* per processed block: the values of the loop's cue locals
    \* ---- parse_uianimation (asset_loader.py) ----
    motion_param_list,    \* _motionParameterList of the animation
    root_motion_id,       \* _rootMotionID, 0 when none is declared
    processed_motion_ids, \* the set of the same name
    call_stack,     \* active find_text_recursively calls: [motion_id, pending]
    pending_roots,  \* motion ids the top level has still to call
    ui_blocks,      \* extracted_data["text_blocks"] so far
    body_runs,      \* the motion ids added to processed_motion_ids, in order
    ui_pc,          \* "start", "walking" or "done"
    \* ---- AssetManager.get_asset_info (asset_loader.py) ----
    meta_rows,      \* rows [n, h, e] of table a, in the order the engine scans them
    name_pattern,   \* the requested name
    asset_info,     \* what get_asset_info returned; called is FALSE before the call
    \* ---- AssetManager.ensure_asset_is_ready / download_asset / load_bundle ----
    auto_download,  \* AUTO_DOWNLOAD_ASSETS
    store,          \* the file at the local content path: [exists, segs, size]
    dir_exists,     \* the directory of the local content path exists
    pipe,           \* per pipeline: the call it is in, see IdlePipe
    net_requests,   \* per pipeline: number of requests.get calls issued
    env_input,      \* per pipeline: [raw, key, processed] of its last UnityPy.load
    \* ---- parse_home_timeline / parse_race_story / parse_lyrics ----
    walk_type,      \* the walker called: "home", "race" or "lyrics"
    walk_items,     \* the elements the walker loops over
    walk_pos,       \* number of elements the loop has taken
    walk_blocks,    \* extracted_data["text_blocks"] so far
    walk_log,       \* the lines printed for skipped elements: [at, kind]
    walk_result,    \* "running", then "document" or "none" (None returned)
    \* ---- run (extractor.py) ----
    args,           \* the command line: [type, update, overwrite]
    assets_to_process, \* the list of the same name
    results,        \* the counters of the same name
    outcomes,       \* the status process_asset returned for each asset, in order
    run_pc          \* "start", "loop", "summary", "empty" or "critical"

mergeVars == <<new_data, existing, new_before, matched, merge_pc>>
cryptVars == <<raw_data, bundle_key, final_key, key_origin, processed_data,
               prev_data, used_keys, rounds>>
assetVars == <<asset_type, bundle, workspace_file, workspace_prev,
               mod_file, last_call, status>>
timelineVars == <<block_list, block_idx, global_cue_offset, timeline_blocks,
                  cue_log>>
\* The variables of the operations modelled after process_asset.
motionVars == <<motion_param_list, root_motion_id, processed_motion_ids,
                call_stack, pending_roots, ui_blocks, body_runs, ui_pc>>
indexVars == <<meta_rows, name_pattern, asset_info>>
loaderVars == <<auto_download, store, dir_exists, pipe, net_requests, env_input>>
walkVars == <<walk_type, walk_items, walk_pos, walk_blocks, walk_log,
              walk_result>>
batchVars == <<args, assets_to_process, results, outcomes, run_pc>>
laterVars == <<walkVars, batchVars>>
restVars == <<timelineVars, motionVars, indexVars, loaderVars, laterVars>>
vars == <<mergeVars, cryptVars, assetVars, restVars>>

-----------------------------------------------------------------------------
(* Bounds of the model *)

\* Largest number of text blocks in a document.
MaxBlocks == 2

-----------------------------------------------------------------------------
(* Generic helpers *)

Rep(c, n) == [i \in 1..n |-> c]

Min2(a, b) == IF a < b THEN a ELSE b

SetMax(S) == CHOOSE x \in S : \A y \in S : y <= x

SetMin(S) == CHOOSE x \in S : \A y \in S : x <= y

\* Python's notion of whitespace, restricted to the characters the model uses.
IsSpace(c) == c = " "

\* str.lstrip(): drop leading whitespace.
RECURSIVE lstrip(_)
lstrip(s) == IF s # <<>> /\ IsSpace(Head(s)) THEN lstrip(Tail(s)) ELSE s

\* str.rstrip(): drop trailing whitespace.
RECURSIVE rstrip(_)
rstrip(s) ==
    IF s # <<>> /\ IsSpace(s[Len(s)]) THEN rstrip(SubSeq(s, 1, Len(s) - 1)) ELSE s

\* str.strip()
strip(s) == rstrip(lstrip(s))

-----------------------------------------------------------------------------
(* Levenshtein.ratio, imported as `similarity` *)

\* Edit distance in which an insertion or a deletion costs 1 and a
\* substitution costs 2 (the distance Levenshtein.ratio is built on).
\* The table is computed row by row; entry j+1 of row i is the distance
\* between the first i characters of s and the first j characters of t.
\* distance_cells extends `row`, the row of c (the i-th character of s), to
\* its full length, from prev, the row before it.
RECURSIVE distance_cells(_, _, _, _)
distance_cells(prev, c, t, row) ==
    LET j == Len(row)
    IN IF j > Len(t) THEN row
       ELSE distance_cells(prev, c, t,
                Append(row, IF c = t[j] THEN prev[j]
                            ELSE Min2(prev[j+1] + 1,
                                      Min2(row[j] + 1, prev[j] + 2))))

\* `rows` holds rows 0 .. Len(rows)-1 of the table.
RECURSIVE distance_rows(_, _, _)
distance_rows(s, t, rows) ==
    LET i == Len(rows)
    IN IF i > Len(s) THEN rows[i][Len(t) + 1]
       ELSE distance_rows(s, t,
                Append(rows, distance_cells(rows[i], s[i], t, <<i>>)))

distance(s, t) == distance_rows(s, t, <<[j \in 1..(Len(t) + 1) |-> j - 1]>>)

\* similarity(s, t) = (lensum - distance) / lensum, and 1.0 when both are
\* empty; kept as the fraction <<numerator, denominator>>.
similarity(s, t) ==
    LET lensum == Len(s) + Len(t)
    IN IF lensum = 0 THEN <<1, 1>> ELSE <<lensum - distance(s, t), lensum>>

\* p < q for two fractions with positive denominators.
RatioLess(p, q) == p[1] * q[2] < q[1] * p[2]

\* The acceptance threshold 0.85 of merge_translations, as 85 / 100.
ThresholdNum == 85
ThresholdDen == 100


\* Mutant of above_threshold: the comparison written as >= 0.85.
at_or_above_threshold(r) == ~RatioLess(r, <<ThresholdNum, ThresholdDen>>)

\* extractor.py line 49: similarity(...) > 0.85
above_threshold(r) == RatioLess(<<ThresholdNum, ThresholdDen>>, r)

-----------------------------------------------------------------------------
(* Documents of text blocks *)

\* A block as the walkers build it.  `keys` holds the optional keys the block
\* carries ("enName", "choices"); a key that is not carried has the value ""
\* (enName) or <<>> (choices), which is never read.
Block(jp, en) ==
    [block_index |-> 0, jpText |-> jp, enText |-> en,
     enName |-> "", choices |-> <<>>, keys |-> {}]

Named(b, name) == [b EXCEPT !.enName = name, !.keys = @ \cup {"enName"}]

WithChoices(b, cs) == [b EXCEPT !.choices = cs, !.keys = @ \cup {"choices"}]

Choice(jp, en) == [jpText |-> jp, enText |-> en]

\* block_index in extraction order, counted from 0.
Number(blocks) == [i \in DOMAIN blocks |-> [blocks[i] EXCEPT !.block_index = i - 1]]

\* All documents of at most MaxBlocks blocks drawn from a pool.
Docs(pool) == {Number(d) : d \in UNION {[1..n -> pool] : n \in 0..MaxBlocks}}

File(blocks) == [exists |-> TRUE, text_blocks |-> blocks]

NoFile == [exists |-> FALSE, text_blocks |-> <<>>]

\* The mod output file: the JSON dump of the workspace document ("workspace",
\* extractor.py line 117) or of its conversion ("hachimi", the editors' save).
ModFile(format, blocks) == [exists |-> TRUE, format |-> format, text_blocks |-> blocks]

NoMod == [exists |-> FALSE, format |-> "none", text_blocks |-> <<>>]

-----------------------------------------------------------------------------
(* merge_translations, extractor.py lines 22-60 *)

\* Line 34: old_text_lookup maps the stripped jpText of every old block with a
\* non-empty jpText to that block; a later block with the same key replaces an
\* earlier one.  The entry for `key` as an index into old_blocks, 0 for none.
old_text_lookup(old_blocks, key) ==
    LET hits == {k \in DOMAIN old_blocks :
                    /\ old_blocks[k].jpText # <<>>
                    /\ strip(old_blocks[k].jpText) = key}
    IN IF hits = {} THEN 0 ELSE SetMax(hits)

\* Lines 43-47: max(old_blocks, key=similarity, default=None) is the first
\* block of maximal similarity, None (0) for an empty list.
max_similarity(jp_text, old_blocks) ==
    LET best == {k \in DOMAIN old_blocks :
                    \A m \in DOMAIN old_blocks :
                        ~RatioLess(similarity(jp_text, old_blocks[k].jpText),
                                   similarity(jp_text, old_blocks[m].jpText))}
    IN IF old_blocks = <<>> THEN 0 ELSE SetMin(best)

\* Lines 40-47: the exact-match entry, else the block of maximal similarity.
best_match(jp_text, old_blocks) ==
    LET exact == old_text_lookup(old_blocks, strip(jp_text))
    IN IF exact # 0 THEN exact ELSE max_similarity(jp_text, old_blocks)

\* Line 49: the candidate exists and is similar enough.
is_match(jp_text, old_blocks) ==
    LET b == best_match(jp_text, old_blocks)
    IN /\ b # 0
       /\ above_threshold(similarity(jp_text, old_blocks[b].jpText))

\* Mutant of copy_translation: the translated text is read under the wrong
\* key (the speaker name instead of the text).
copy_translation_wrong_key(new_block, bm) ==
    [new_block EXCEPT !.enText = IF "enName" \in bm.keys THEN bm.enName ELSE ""]

\* Mutant of copy_translation: the list of choices of the existing block is
\* taken over whole instead of choice by choice.
copy_translation_whole_choices(new_block, bm) ==
    [new_block EXCEPT
       !.enText  = bm.enText,
       !.choices = IF "choices" \in new_block.keys /\ "choices" \in bm.keys
                   THEN bm.choices ELSE @]

\* Mutant of copy_translation: a choice the existing block has no counterpart
\* for loses its translated text.
copy_translation_blank_extra_choices(new_block, bm) ==
    LET name == "enName" \in bm.keys
        both == "choices" \in new_block.keys /\ "choices" \in bm.keys
        cs   == new_block.choices
    IN [new_block EXCEPT
          !.enText  = bm.enText,
          !.enName  = IF name THEN bm.enName ELSE @,
          !.keys    = IF name THEN @ \cup {"enName"} ELSE @,
          !.choices = IF both
                      THEN [i \in DOMAIN cs |->
                              [cs[i] EXCEPT !.enText =
                                  IF i <= Len(bm.choices)
                                  THEN bm.choices[i].enText ELSE ""]]
                      ELSE @]

\* Lines 51-57: copy the translated fields of best_match `bm` into new_block.
copy_translation(new_block, bm) ==
    LET name == "enName" \in bm.keys
        both == "choices" \in new_block.keys /\ "choices" \in bm.keys
        cs   == new_block.choices
    IN [new_block EXCEPT
          !.enText  = bm.enText,
          !.enName  = IF name THEN bm.enName ELSE @,
          !.keys    = IF name THEN @ \cup {"enName"} ELSE @,
          !.choices = IF both
                      THEN [i \in DOMAIN cs |->
                              IF i <= Len(bm.choices)
                              THEN [cs[i] EXCEPT !.enText = bm.choices[i].enText]
                              ELSE cs[i]]
                      ELSE @]

\* Lines 37-57: the body of the loop for one new block.
merge_block(new_block, old_blocks) ==
    IF new_block.jpText = <<>> THEN new_block
    ELSE IF is_match(new_block.jpText, old_blocks)
         THEN copy_translation(new_block,
                               old_blocks[best_match(new_block.jpText, old_blocks)])
         ELSE new_block

\* The list without its k-th element.
Without(seq, k) == SubSeq(seq, 1, k - 1) \o SubSeq(seq, k + 1, Len(seq))

\* Mutant of merge_loop: an old block that was used for one new block is no
\* longer offered to the blocks after it.
RECURSIVE merge_loop_consuming(_, _)
merge_loop_consuming(new_blocks, old_blocks) ==
    IF new_blocks = <<>> THEN <<>>
    ELSE LET nb   == Head(new_blocks)
             used == nb.jpText # <<>> /\ is_match(nb.jpText, old_blocks)
             rest == IF used
                     THEN Without(old_blocks, best_match(nb.jpText, old_blocks))
                     ELSE old_blocks
         IN <<merge_block(nb, old_blocks)>>
                \o merge_loop_consuming(Tail(new_blocks), rest)

\* Lines 36-57: the loop.  Every new block is matched against the whole,
\* unchanged list of old blocks.
merge_loop(new_blocks, old_blocks) ==
    [i \in DOMAIN new_blocks |-> merge_block(new_blocks[i], old_blocks)]

\* Lines 22-60.
merge_translations(new_blocks, existing_tl) ==
    IF ~existing_tl.exists THEN new_blocks
    ELSE merge_loop(new_blocks, existing_tl.text_blocks)

\* Lines 49-50: the new blocks counted in match_count.
matched_blocks(new_blocks, existing_tl) ==
    IF ~existing_tl.exists THEN {}
    ELSE {i \in DOMAIN new_blocks :
            /\ new_blocks[i].jpText # <<>>
            /\ is_match(new_blocks[i].jpText, existing_tl.text_blocks)}

-----------------------------------------------------------------------------
(* Inputs of merge_translations *)

T5   == <<"a", "b", "c", "d", "e">>
T6   == T5 \o <<"!">>               \* similarity(T5, T6) = 10/11
T5sp == T5 \o <<" ">>               \* strips to T5, similarity 10/11
A1   == <<"a">>
A1sp == <<"a", " ">>                \* strips to A1, similarity 2/3
Sp   == <<" ">>                     \* not empty, strips to the empty text
L17  == Rep("x", 17)
L23  == L17 \o Rep("y", 6)          \* similarity(L17, L23) = 34/40 = 0.85
L22  == L17 \o Rep("y", 5)          \* similarity(L17, L22) = 34/39

\* Each family is a pool of new blocks and a pool of existing blocks.
FamThreshold ==
    [new |-> {Block(L17, ""), Block(T5, "")},
     old |-> {Block(L23, "E1"), Block(L22, "E2"), Block(T6, "E3")}]

FamDuplicates ==
    [new |-> {Block(T5, ""), Block(T6, ""), Block(T5, "P")},
     old |-> {Block(T5, "E1"), Block(T5, "E2"), Block(T6, "E3")}]

FamWhitespace ==
    [new |-> {Block(A1, ""), Block(A1sp, "P"), Block(Sp, ""), Block(<<>>, "P")},
     old |-> {Block(A1, "E1"), Block(A1sp, "E2"), Block(Sp, "E3"),
              Block(<<>>, "E4")}]

FamChoices ==
    [new |-> {WithChoices(Named(Block(T5, ""), ""),
                          <<Choice(A1, ""), Choice(T6, "P")>>),
              WithChoices(Block(T6, "P"), <<Choice(A1, "P")>>),
              Block(T5sp, "")},
     old |-> {WithChoices(Named(Block(T5, "E1"), "N1"),
                          <<Choice(A1, "C1"), Choice(T6, "C2"), Choice(T5, "C3")>>),
              WithChoices(Block(T6, "E2"), <<Choice(T5, "C4")>>),
              Named(Block(T5sp, "E3"), "N2"),
              WithChoices(Block(T5, "E4"), <<>>)}]

Families == {FamThreshold, FamDuplicates, FamWhitespace, FamChoices}

\* Documents merged against themselves.
SelfPool ==
    {Block(T5, "E1"), Block(T5, "E2"), Block(T5sp, "E3"), Block(<<>>, "E4"),
     WithChoices(Named(Block(A1, "E1"), "N1"), <<Choice(A1, "C1")>>)}

-----------------------------------------------------------------------------
(* The state before any operation *)

MergeIdle ==
    /\ new_data = <<>>
    /\ existing = NoFile
    /\ new_before = <<>>
    /\ matched = {}
    /\ merge_pc = "idle"

CryptIdle ==
    /\ raw_data = <<>>
    /\ bundle_key = 0
    /\ final_key = <<>>
    /\ key_origin = "given"
    /\ processed_data = <<>>
    /\ prev_data = <<>>
    /\ used_keys = <<>>
    /\ rounds = 0

AssetIdle ==
    /\ asset_type = "generic"
    /\ bundle = [loads |-> FALSE, texts |-> <<>>]
    /\ workspace_file = NoFile
    /\ workspace_prev = NoFile
    /\ mod_file = NoMod
    /\ last_call = [update |-> FALSE, overwrite |-> FALSE]
    /\ status = "none"

TimelineIdle ==
    /\ block_list = <<>>
    /\ block_idx = 0
    /\ global_cue_offset = 0
    /\ timeline_blocks = <<>>
    /\ cue_log = <<>>

MotionIdle ==
    /\ motion_param_list = <<>>
    /\ root_motion_id = 0
    /\ processed_motion_ids = {}
    /\ call_stack = <<>>
    /\ pending_roots = <<>>
    /\ ui_blocks = <<>>
    /\ body_runs = <<>>
    /\ ui_pc = "idle"

IndexIdle ==
    /\ meta_rows = <<>>
    /\ name_pattern = <<>>
    /\ asset_info = [called |-> FALSE]

LoaderIdle ==
    /\ auto_download = FALSE
    /\ store = [exists |-> FALSE, segs |-> {}, size |-> 0]
    /\ dir_exists = FALSE
    /\ pipe = <<>>
    /\ net_requests = <<>>
    /\ env_input = <<>>

WalkIdle ==
    /\ walk_type = "idle"
    /\ walk_items = <<>>
    /\ walk_pos = 0
    /\ walk_blocks = <<>>
    /\ walk_log = <<>>
    /\ walk_result = "idle"

BatchIdle ==
    /\ args = [type |-> "idle", update |-> FALSE, overwrite |-> FALSE]
    /\ assets_to_process = <<>>
    /\ results = [success |-> 0, failed |-> 0, skipped |-> 0]
    /\ outcomes = <<>>
    /\ run_pc = "idle"

LaterIdle == WalkIdle /\ BatchIdle

RestIdle == TimelineIdle /\ MotionIdle /\ IndexIdle /\ LoaderIdle /\ LaterIdle

-----------------------------------------------------------------------------
(* merge_translations as an operation on a new document and an existing file *)

InitMerge ==
    /\ \/ \E fam \in Families :
            /\ new_data \in Docs(fam.new)
            /\ existing \in {File(d) : d \in Docs(fam.old)}
       \/ /\ new_data \in Docs(SelfPool)
          /\ existing = File(new_data)
       \/ /\ new_data \in Docs(FamDuplicates.new)
          /\ existing = NoFile
    /\ new_before = new_data
    /\ matched = {}
    /\ merge_pc = "ready"
    /\ CryptIdle
    /\ AssetIdle
    /\ RestIdle

\* One call of merge_translations(new_data, existing_tl_path); new_data is
\* updated in place and returned.
Merge ==
    /\ merge_pc = "ready"
    /\ new_before' = new_data
    /\ new_data' = merge_translations(new_data, existing)
    /\ matched' = matched_blocks(new_data, existing)
    /\ merge_pc' = "merged"
    /\ UNCHANGED <<existing, cryptVars, assetVars, restVars>>

NextMerge == Merge

SpecMerge == InitMerge /\ [][NextMerge]_vars

-----------------------------------------------------------------------------
(* The walkers, asset_loader.py lines 59-402, as far as the shape of the      *)
(* blocks they build and the texts they keep                                  *)

\* The value a walker returns: a document, or None.
Found(blocks) == [exists |-> TRUE, text_blocks |-> blocks]

None == [exists |-> FALSE, text_blocks |-> <<>>]

\* The block a walker builds for the i-th text (lines 137-150, 185-189,
\* 236-240, 292-297, 321-325, 380-387): enText is always "".
fresh_block(type, jp, i) ==
    LET b == [Block(jp, "") EXCEPT !.block_index = i - 1]
    IN CASE type = "story"   -> WithChoices(Named(b, ""), <<>>)
         [] type = "home"    -> WithChoices(b, <<>>)
         [] type = "preview" -> Named(b, "")
         [] type = "lyrics"  -> [b EXCEPT !.jpText = strip(jp)]
         [] OTHER            -> b

\* The texts a walker makes a block of: parse_home_timeline (line 286) and
\* parse_preview (line 320) drop an empty text, parse_uianimation (line 379)
\* a blank one.
keeps_text(type, jp) ==
    CASE type \in {"home", "preview"} -> jp # <<>>
      [] type = "uianimation"         -> strip(jp) # <<>>
      [] OTHER                        -> TRUE

\* PARSER_MAP[asset_type] applied to a bundle with the given texts.
\* parse_generic extracts nothing; parse_home_timeline, parse_preview and
\* parse_lyrics return None when no block was built (lines 309, 326, 242-249).
walker(type, texts) ==
    LET all    == [i \in DOMAIN texts |-> fresh_block(type, texts[i], i)]
        blocks == SelectSeq(all, LAMBDA b : keeps_text(type, texts[b.block_index + 1]))
    IN IF type = "generic" THEN Found(<<>>)
       ELSE IF type \in {"home", "preview", "lyrics"} /\ blocks = <<>> THEN None
       ELSE Found(blocks)

-----------------------------------------------------------------------------
(* extract_asset_data and process_asset, extractor.py lines 62-125 *)

AssetTypes ==
    {"story", "race", "lyrics", "home", "preview", "uianimation", "generic"}

Raised == [raised |-> TRUE, data |-> <<>>]

Returned(blocks) == [raised |-> FALSE, data |-> blocks]

\* Lines 62-93.  load_bundle returning None (line 69) and the walker
\* returning None (line 76) raise RuntimeError; every type but uianimation
\* is merged with the file at workspace_path (lines 89-91).
extract_asset_data(type, bdl, workspace_path) ==
    IF ~bdl.loads THEN Raised
    ELSE LET extracted_data == walker(type, bdl.texts)
         IN IF ~extracted_data.exists THEN Raised
            ELSE IF type # "uianimation"
                 THEN Returned(merge_translations(extracted_data.text_blocks,
                                                  workspace_path))
                 ELSE Returned(extracted_data.text_blocks)

\* Line 113: convert_to_hachimi_format(workspace_data) reads a name that is
\* bound nowhere in process_asset or in the module, so the call raises
\* NameError, after the workspace record was written.
hachimi_step_raises == TRUE

\* Lines 95-125: the outcome and the two files after the call.
process_asset(type, bdl, workspace, mod, update, overwrite) ==
    IF workspace.exists /\ ~update /\ ~overwrite
    THEN [status |-> "skipped", workspace |-> workspace, mod |-> mod]
    ELSE LET final_data ==
                extract_asset_data(type, bdl, IF update THEN workspace ELSE NoFile)
         IN IF final_data.raised
            THEN [status |-> "failed", workspace |-> workspace, mod |-> mod]
            ELSE IF hachimi_step_raises
            THEN [status |-> "failed", workspace |-> File(final_data.data),
                  mod |-> mod]
            ELSE [status |-> "success", workspace |-> File(final_data.data),
                  mod |-> ModFile("workspace", final_data.data)]

\* The source texts a bundle may hold.
SourceTexts == {<<>>, <<T5>>, <<T5, T6>>, <<T5, T5>>, <<A1sp, <<>>>>, <<Sp>>}

Translations == {"E1", "E2"}

InitAsset ==
    /\ asset_type \in AssetTypes
    /\ bundle \in {[loads |-> l, texts |-> t] :
                      l \in BOOLEAN, t \in SourceTexts}
    /\ workspace_file = NoFile
    /\ workspace_prev = NoFile
    /\ mod_file = NoMod
    /\ last_call = [update |-> FALSE, overwrite |-> FALSE]
    /\ status = "none"
    /\ MergeIdle
    /\ CryptIdle
    /\ RestIdle

\* One call of process_asset for the asset; --update and --overwrite are
\* mutually exclusive (line 192).
ProcessAsset(update, overwrite) ==
    LET r == process_asset(asset_type, bundle, workspace_file, mod_file,
                           update, overwrite)
    IN /\ ~(update /\ overwrite)
       /\ workspace_prev' = workspace_file
       /\ workspace_file' = r.workspace
       /\ mod_file' = r.mod
       /\ status' = r.status
       /\ last_call' = [update |-> update, overwrite |-> overwrite]
       /\ UNCHANGED <<asset_type, bundle, mergeVars, cryptVars, restVars>>

\* Downstream editing (gui_uianimation_tab.py lines 134-153): a translator
\* fills in the translated text of one block of the workspace record and
\* saves; the save rewrites the record and the converted mod file.
Translate(i, en) ==
    /\ workspace_file.exists
    /\ i \in DOMAIN workspace_file.text_blocks
    /\ workspace_file.text_blocks[i].enText = ""
    /\ workspace_file' = [workspace_file EXCEPT !.text_blocks[i].enText = en]
    /\ mod_file' = ModFile("hachimi", workspace_file'.text_blocks)
    /\ status' = "none"
    /\ UNCHANGED <<asset_type, bundle, workspace_prev, last_call,
                   mergeVars, cryptVars, restVars>>

NextAsset ==
    \/ \E update, overwrite \in BOOLEAN : ProcessAsset(update, overwrite)
    \/ \E i \in 1..Len(workspace_file.text_blocks), en \in Translations :
          Translate(i, en)

Spec == InitAsset /\ [][NextAsset]_vars

-----------------------------------------------------------------------------
(* create_asset_final_key and decrypt_asset_data, asset_loader.py lines 18-57 *)

\* Largest number of decrypt_asset_data calls applied to one payload.
MaxRounds == 2

\* Line 55: the first 256 bytes of a payload are not encrypted.
HeaderLen == 256

\* Line 18: ASSET_BASE_KEY = bytes.fromhex("532b4631e4a7b9473e7cfb")
ASSET_BASE_KEY == <<83, 43, 70, 49, 228, 167, 185, 71, 62, 124, 251>>

\* Mutant of Xor: the bytes are added modulo 256.
AddBytes(a, b) == (a + b) % 256

\* a ^ b on two bytes, bit by bit.
RECURSIVE Xor(_, _)
Xor(a, b) ==
    IF a = 0 THEN b
    ELSE IF b = 0 THEN a
    ELSE ((a + b) % 2) + 2 * Xor(a \div 2, b \div 2)

\* The n low bytes of k, most significant first, sign-extended.
RECURSIVE to_bytes_big(_, _)
to_bytes_big(k, n) ==
    IF n = 0 THEN <<>> ELSE Append(to_bytes_big(k \div 256, n - 1), k % 256)

\* Mutant of to_bytes_little: byteorder="big".
to_bytes_big_endian(k) == to_bytes_big(k, 8)

\* The n low bytes of k, least significant first; \div rounds down and %
\* is never negative, so a negative k yields its two's complement.
RECURSIVE to_bytes(_, _)
to_bytes(k, n) ==
    IF n = 0 THEN <<>> ELSE <<k % 256>> \o to_bytes(k \div 256, n - 1)

\* Line 41: bundle_key_int.to_bytes(8, byteorder="little", signed=True)
to_bytes_little(k) == to_bytes(k, 8)

\* Lines 48-49: the inner loop, final_key[baseOffset + j] = b ^ k for the
\* bytes k of bundle_key_bytes from index j on (indices counted from 0).
\* The writes land on consecutive indices from 0 on, so the key is built by
\* appending: index baseOffset + j is the next free one.
RECURSIVE key_inner(_, _, _, _, _)
key_inner(key, b, baseOffset, bundle_key_bytes, j) ==
    IF j >= Len(bundle_key_bytes) \/ Len(key) # baseOffset + j THEN key
    ELSE key_inner(Append(key, Xor(b, bundle_key_bytes[j + 1])),
                   b, baseOffset, bundle_key_bytes, j + 1)

\* Lines 46-49: the outer loop over the bytes b of base_key from index i on;
\* baseOffset = i << 3.
RECURSIVE key_outer(_, _, _, _)
key_outer(key, base_key, bundle_key_bytes, i) ==
    IF i >= Len(base_key) THEN key
    ELSE key_outer(key_inner(key, base_key[i + 1], i * 8, bundle_key_bytes, 0),
                   base_key, bundle_key_bytes, i + 1)

\* Lines 39-50.
create_asset_final_key(bundle_key_int) ==
    key_outer(<<>>, ASSET_BASE_KEY, to_bytes_little(bundle_key_int), 0)

\* Mutant of decrypt_asset_data: the keystream is indexed from the start of
\* the encrypted part instead of the start of the payload.
decrypt_relative_offset(data, key) ==
    [p \in 1..Len(data) |->
        IF p - 1 >= HeaderLen
        THEN Xor(data[p], key[((p - 1 - HeaderLen) % Len(key)) + 1])
        ELSE data[p]]

\* Mutant of decrypt_asset_data: the header is decrypted as well.
decrypt_whole_payload(data, key) ==
    [p \in 1..Len(data) |->
        IF key # <<>> THEN Xor(data[p], key[((p - 1) % Len(key)) + 1]) ELSE data[p]]

\* Lines 52-57: byte i (counted from 0) is XORed with final_key[i % key_len]
\* for i in range(256, len(data)).
decrypt_asset_data(data, key) ==
    [p \in 1..Len(data) |->
        IF p - 1 >= HeaderLen
        THEN Xor(data[p], key[((p - 1) % Len(key)) + 1])
        ELSE data[p]]

\* A payload of len bytes, byte i (counted from 0) being (a * i + b) mod 256.
Payload(len, a, b) == [p \in 1..len |-> (a * (p - 1) + b) % 256]

PayloadLengths == {0, 1, 255, 256, 257, 300, 345}

Payloads ==
    {Payload(len, ab[1], ab[2]) :
        len \in PayloadLengths, ab \in {<<0, 0>>, <<1, 0>>, <<7, 13>>}}

\* Cipher keys of the asset index (column e), among them negative ones.
BundleKeys == {999, 1, -1, -999, 305419896, -2147483647}

\* Keystreams that are not derived from a cipher key.
Keystreams == {<<>>, <<255>>, <<1, 2, 4>>}

InitCrypt ==
    /\ raw_data \in Payloads
    /\ bundle_key \in BundleKeys
    /\ final_key \in Keystreams
    /\ key_origin = "given"
    /\ processed_data = raw_data
    /\ prev_data = raw_data
    /\ used_keys = <<>>
    /\ rounds = 0
    /\ MergeIdle
    /\ AssetIdle
    /\ RestIdle

\* final_key = create_asset_final_key(encryption_key_int), line 546.
CreateKey ==
    /\ key_origin = "given"
    /\ final_key' = create_asset_final_key(bundle_key)
    /\ key_origin' = "derived"
    /\ UNCHANGED <<raw_data, bundle_key, processed_data, prev_data, used_keys,
                   rounds, mergeVars, assetVars, restVars>>

\* One call of decrypt_asset_data on the buffer.  With an empty keystream and
\* a payload of more than 256 bytes the call raises ZeroDivisionError
\* (line 56) and returns nothing.
Decrypt ==
    /\ rounds < MaxRounds
    /\ Len(processed_data) > HeaderLen => final_key # <<>>
    /\ prev_data' = processed_data
    /\ processed_data' = decrypt_asset_data(processed_data, final_key)
    /\ used_keys' = Append(used_keys, final_key)
    /\ rounds' = rounds + 1
    /\ UNCHANGED <<raw_data, bundle_key, final_key, key_origin, mergeVars,
                   assetVars, restVars>>

NextCrypt == CreateKey \/ Decrypt

SpecCrypt == InitCrypt /\ [][NextCrypt]_vars

-----------------------------------------------------------------------------
(* parse_story_timeline, asset_loader.py lines 84-173 *)

\* Largest number of blocks after the first one in a BlockList.
MaxClips == 3

\* A block whose text clip is read: CueId (absent when has_cue is FALSE) and
\* DifferenceFlag of its typetree.
Clip(has_cue, CueId, DifferenceFlag) ==
    [ok |-> TRUE, has_cue |-> has_cue, CueId |-> CueId,
     DifferenceFlag |-> DifferenceFlag]

\* A block the loop skips with a warning (lines 95-117): malformed TextTrack
\* or ClipList, no path id, no object for the path id, typetree not a dict.
MalformedClip == [ok |-> FALSE, has_cue |-> FALSE, CueId |-> 0, DifferenceFlag |-> 0]

\* Line 131: original_cue_id is not None and original_cue_id != -1
valid_cue(text_clip_data) == text_clip_data.has_cue /\ text_clip_data.CueId # -1

\* Mutant of cue_step: the global offset is incremented before it is used.
cue_step_increment_first(text_clip_data, offset) ==
    LET bumped == IF text_clip_data.DifferenceFlag = 4 /\ valid_cue(text_clip_data)
                  THEN offset + 1 ELSE offset
        local_cue_offset == IF text_clip_data.DifferenceFlag = 2 THEN 1 ELSE 0
    IN [final_cue_id |-> IF valid_cue(text_clip_data)
                         THEN text_clip_data.CueId + local_cue_offset + bumped
                         ELSE text_clip_data.CueId,
        global_cue_offset |-> bumped]

\* Mutant of cue_step: a difference flag of 2 also raises the global offset.
cue_step_local_is_global(text_clip_data, offset) ==
    LET local_cue_offset == IF text_clip_data.DifferenceFlag = 2 THEN 1 ELSE 0
        flagged == text_clip_data.DifferenceFlag \in {2, 4}
    IN [final_cue_id |-> IF valid_cue(text_clip_data)
                         THEN text_clip_data.CueId + local_cue_offset + offset
                         ELSE text_clip_data.CueId,
        global_cue_offset |-> IF flagged /\ valid_cue(text_clip_data)
                              THEN offset + 1 ELSE offset]

\* Lines 122-135: the cue locals of one block, from its text clip and the
\* running offset.
cue_step(text_clip_data, offset) ==
    LET original_cue_id == text_clip_data.CueId
        difference_flag == text_clip_data.DifferenceFlag
        local_cue_offset == IF difference_flag = 2 THEN 1 ELSE 0
    IN [final_cue_id |-> IF valid_cue(text_clip_data)
                         THEN original_cue_id + local_cue_offset + offset
                         ELSE original_cue_id,
        global_cue_offset |-> IF difference_flag = 4 /\ valid_cue(text_clip_data)
                              THEN offset + 1 ELSE offset]

\* Lines 137-150: the block appended for block_list[idx]; voiceIdx is the
\* CueId of the typetree.
block_data(idx, text_clip_data) ==
    [block_index |-> idx - 1,
     has_voice |-> text_clip_data.has_cue,
     voiceIdx |-> text_clip_data.CueId,
     differenceFlag |-> text_clip_data.DifferenceFlag]

Clips ==
    {MalformedClip}
    \cup {Clip(FALSE, 0, f) : f \in {0, 2, 4}}
    \cup {Clip(TRUE, c, f) : c \in {-1, 10, 20}, f \in {0, 2, 4}}

\* The BlockList: its first element, which the loop never looks at, and up
\* to MaxClips more.
InitTimeline ==
    /\ \E n \in 0..MaxClips :
          block_list \in {<<MalformedClip>> \o t : t \in [1..n -> Clips]}
    /\ block_idx = 0
    /\ global_cue_offset = 0
    /\ timeline_blocks = <<>>
    /\ cue_log = <<>>
    /\ MergeIdle
    /\ CryptIdle
    /\ AssetIdle
    /\ MotionIdle
    /\ IndexIdle
    /\ LoaderIdle
    /\ LaterIdle

\* One iteration of the loop of line 94 over block_list[1:], start=1.
TimelineStep ==
    /\ block_idx + 1 < Len(block_list)
    /\ block_idx' = block_idx + 1
    /\ LET text_clip_data == block_list[block_idx' + 1]
           cue == cue_step(text_clip_data, global_cue_offset)
       IN IF ~text_clip_data.ok
          THEN UNCHANGED <<global_cue_offset, timeline_blocks, cue_log>>
          ELSE /\ global_cue_offset' = cue.global_cue_offset
               /\ timeline_blocks' =
                     Append(timeline_blocks, block_data(block_idx', text_clip_data))
               /\ cue_log' = Append(cue_log,
                     [block_idx |-> block_idx',
                      final_cue_id |-> cue.final_cue_id,
                      offset_before |-> global_cue_offset,
                      offset_after |-> cue.global_cue_offset])
    /\ UNCHANGED <<block_list, mergeVars, cryptVars, assetVars, motionVars,
                   indexVars, loaderVars, laterVars>>

NextTimeline == TimelineStep

SpecTimeline == InitTimeline /\ [][NextTimeline]_vars

-----------------------------------------------------------------------------
(* parse_uianimation, asset_loader.py lines 339-402 *)

\* A motion of _motionParameterList; the two child lists hold the
\* _childMotionID of each entry, 0 for an entry without one.
Motion(id, texts, object_children, plane_children) ==
    [_id |-> id, _textParamList |-> texts,
     _objectParamList |-> object_children, _planeParamList |-> plane_children]

\* Line 360: motion_map, a dict, holds for an id the last motion carrying it.
motion_map(list, id) ==
    list[SetMax({i \in DOMAIN list : list[i]._id = id})]

\* Line 361: motion_index_map, the index (from 0) of that motion.
motion_index_map(list, id) ==
    SetMax({i \in DOMAIN list : list[i]._id = id}) - 1

\* Line 399: motion_map.keys(), the ids in the order of their first motion.
RECURSIVE motion_map_keys(_)
motion_map_keys(list) ==
    IF list = <<>> THEN <<>>
    ELSE LET front == motion_map_keys(SubSeq(list, 1, Len(list) - 1))
             id == list[Len(list)]._id
         IN IF \E k \in DOMAIN front : front[k] = id THEN front
            ELSE Append(front, id)

\* Lines 376-385: the blocks of the motion's non-blank texts, in order.
RECURSIVE motion_text_blocks(_, _, _)
motion_text_blocks(motion_idx, texts, n) ==
    IF n = 0 THEN <<>>
    ELSE LET front == motion_text_blocks(motion_idx, texts, n - 1)
         IN IF strip(texts[n]) # <<>>
            THEN Append(front, [motion_index |-> motion_idx,
                                text_index |-> n - 1,
                                jpText |-> texts[n], enText |-> ""])
            ELSE front

\* Mutant of already_processed: no id is ever taken as processed.
never_processed(motion_id, processed) == FALSE

\* Line 366: motion_id in processed_motion_ids
already_processed(motion_id, processed) == motion_id \in processed

\* Lines 365-385: a call find_text_recursively(motion_id) up to its loop
\* over the children, made below the frames of stack.  The call returns at
\* once for a falsy or processed id (line 366) and for an id without a
\* motion (line 371); else it emits the motion's texts and stays active.
Enter(motion_id, stack) ==
    IF motion_id = 0 \/ already_processed(motion_id, processed_motion_ids)
    THEN /\ call_stack' = stack
         /\ UNCHANGED <<processed_motion_ids, ui_blocks, body_runs>>
    ELSE /\ processed_motion_ids' = processed_motion_ids \cup {motion_id}
         /\ body_runs' = Append(body_runs, motion_id)
         /\ IF \A i \in DOMAIN motion_param_list :
                  motion_param_list[i]._id # motion_id
            THEN /\ call_stack' = stack
                 /\ UNCHANGED ui_blocks
            ELSE LET motion_param == motion_map(motion_param_list, motion_id)
                     texts == motion_param._textParamList
                 IN /\ ui_blocks' = ui_blocks \o
                          motion_text_blocks(
                              motion_index_map(motion_param_list, motion_id),
                              texts, Len(texts))
                    /\ call_stack' = Append(stack,
                          [motion_id |-> motion_id,
                           pending |-> motion_param._objectParamList
                                       \o motion_param._planeParamList])

UiFrame ==
    <<mergeVars, cryptVars, assetVars, timelineVars, indexVars, loaderVars,
      laterVars>>

\* Lines 357-358 and 395-400: an empty list returns at once; else the top
\* level calls the root, or every key of motion_map if no root is declared.
UiStart ==
    /\ ui_pc = "start"
    /\ IF motion_param_list = <<>>
       THEN ui_pc' = "done" /\ UNCHANGED pending_roots
       ELSE /\ ui_pc' = "walking"
            /\ pending_roots' = IF root_motion_id # 0 THEN <<root_motion_id>>
                                ELSE motion_map_keys(motion_param_list)
    /\ UNCHANGED <<motion_param_list, root_motion_id, processed_motion_ids,
                   call_stack, ui_blocks, body_runs, UiFrame>>

\* Lines 397, 400: a call made by the top level.
UiTopCall ==
    /\ ui_pc = "walking"
    /\ call_stack = <<>>
    /\ pending_roots # <<>>
    /\ pending_roots' = Tail(pending_roots)
    /\ Enter(Head(pending_roots), <<>>)
    /\ UNCHANGED <<motion_param_list, root_motion_id, ui_pc, UiFrame>>

\* Lines 387-391: the innermost call takes its next child entry.
UiChildCall ==
    /\ ui_pc = "walking"
    /\ call_stack # <<>>
    /\ LET top == call_stack[Len(call_stack)]
       IN /\ top.pending # <<>>
          /\ Enter(Head(top.pending),
                   [call_stack EXCEPT ![Len(call_stack)].pending = Tail(top.pending)])
    /\ UNCHANGED <<motion_param_list, root_motion_id, pending_roots, ui_pc,
                   UiFrame>>

\* The innermost call has no child entry left and returns.
UiReturn ==
    /\ ui_pc = "walking"
    /\ call_stack # <<>>
    /\ call_stack[Len(call_stack)].pending = <<>>
    /\ call_stack' = SubSeq(call_stack, 1, Len(call_stack) - 1)
    /\ UNCHANGED <<motion_param_list, root_motion_id, processed_motion_ids,
                   pending_roots, ui_blocks, body_runs, ui_pc, UiFrame>>

\* Line 402: return extracted_data.
UiFinish ==
    /\ ui_pc = "walking"
    /\ call_stack = <<>>
    /\ pending_roots = <<>>
    /\ ui_pc' = "done"
    /\ UNCHANGED <<motion_param_list, root_motion_id, processed_motion_ids,
                   call_stack, pending_roots, ui_blocks, body_runs, UiFrame>>

\* Motions of the graphs walked: ids 0..2, children 0..3 (3 has no motion).
SmallMotions ==
    {Motion(id, texts, oc, pc) :
        id \in 0..2, texts \in {<<T5>>, <<Sp, A1sp>>},
        oc \in {<<>>, <<0>>, <<1>>, <<2>>, <<3>>},
        pc \in {<<>>, <<1>>, <<2>>}}

\* Graphs of three motions: a cycle through both child lists, a motion with
\* three parents, a motion listed twice by one parent.
ThreeMotionGraphs ==
    {<<Motion(1, <<T5>>, <<2>>, <<>>), Motion(2, <<T6>>, <<>>, <<3>>),
       Motion(3, <<A1sp>>, <<1>>, <<>>)>>,
     <<Motion(1, <<T5>>, <<2, 3>>, <<3>>), Motion(2, <<T6>>, <<3>>, <<1>>),
       Motion(3, <<A1sp, Sp, T5>>, <<>>, <<3>>)>>,
     <<Motion(3, <<T5>>, <<3, 3>>, <<1, 1>>), Motion(1, <<>>, <<2>>, <<2>>),
       Motion(2, <<T6>>, <<>>, <<>>)>>}

InitMotion ==
    /\ \/ motion_param_list = <<>>
       \/ \E a \in SmallMotions : motion_param_list = <<a>>
       \/ \E a, b \in SmallMotions :
             /\ a._textParamList = b._textParamList
             /\ motion_param_list = <<a, b>>
       \/ motion_param_list \in ThreeMotionGraphs
    /\ root_motion_id \in 0..3
    /\ processed_motion_ids = {}
    /\ call_stack = <<>>
    /\ pending_roots = <<>>
    /\ ui_blocks = <<>>
    /\ body_runs = <<>>
    /\ ui_pc = "start"
    /\ MergeIdle
    /\ CryptIdle
    /\ AssetIdle
    /\ TimelineIdle
    /\ IndexIdle
    /\ LoaderIdle
    /\ LaterIdle

NextMotion == UiStart \/ UiTopCall \/ UiChildCall \/ UiReturn \/ UiFinish

\* The walker is sequential code: it takes its next step whenever it has one.
SpecMotion == InitMotion /\ [][NextMotion]_vars /\ WF_vars(NextMotion)

-----------------------------------------------------------------------------
(* AssetManager.get_asset_info, asset_loader.py lines 448-467 *)

\* Largest number of rows in table a.
MaxRows == 3

AsciiUpper ==
    <<"A", "B", "C", "D", "E", "F", "G", "H", "I", "J", "K", "L", "M",
      "N", "O", "P", "Q", "R", "S", "T", "U", "V", "W", "X", "Y", "Z">>

AsciiLower ==
    <<"a", "b", "c", "d", "e", "f", "g", "h", "i", "j", "k", "l", "m",
      "n", "o", "p", "q", "r", "s", "t", "u", "v", "w", "x", "y", "z">>

\* SQLite's LIKE compares ASCII letters without regard to case.
fold(c) ==
    IF \E i \in DOMAIN AsciiUpper : AsciiUpper[i] = c
    THEN AsciiLower[CHOOSE i \in DOMAIN AsciiUpper : AsciiUpper[i] = c]
    ELSE c

\* text LIKE pattern: % stands for any run of characters, _ for any one.
RECURSIVE like(_, _)
like(pattern, text) ==
    IF pattern = <<>> THEN text = <<>>
    ELSE IF Head(pattern) = "%"
         THEN \/ like(Tail(pattern), text)
              \/ text # <<>> /\ like(pattern, Tail(text))
         ELSE /\ text # <<>>
              /\ Head(pattern) = "_" \/ fold(Head(pattern)) = fold(Head(text))
              /\ like(Tail(pattern), Tail(text))

\* Line 460: n LIKE ?, with name_pattern + '%' for the parameter.
prefix_matches(name, n) == like(Append(name, "%"), n)

\* cursor.execute(...).fetchone(): the first row the query yields, 0 if none.
fetchone(rows, hits) ==
    IF \A i \in DOMAIN rows : ~hits[i] THEN 0
    ELSE SetMin({i \in DOMAIN rows : hits[i]})

\* Lines 453, 462: return row[0], int(row[1]) if row[1] else 0
info_of(row, via) ==
    [called |-> TRUE, found |-> TRUE, hash |-> row.h,
     key |-> IF row.e_null THEN 0 ELSE row.e, via |-> via]

\* Line 467: return None, None
NoInfo == [called |-> TRUE, found |-> FALSE, hash |-> "", key |-> 0, via |-> "none"]

\* Mutant of get_asset_info: the prefix query is tried first.
get_asset_info_prefix_first(rows, name) ==
    LET prefix == fetchone(rows, [i \in DOMAIN rows |-> prefix_matches(name, rows[i].n)])
    IN IF prefix # 0 THEN info_of(rows[prefix], "prefix") ELSE NoInfo

\* Lines 448-467: the exact query, then the prefix query.
get_asset_info(rows, name) ==
    LET exact == fetchone(rows, [i \in DOMAIN rows |-> rows[i].n = name])
        prefix == fetchone(rows, [i \in DOMAIN rows |-> prefix_matches(name, rows[i].n)])
    IN IF exact # 0 THEN info_of(rows[exact], "exact")
       ELSE IF prefix # 0 THEN info_of(rows[prefix], "prefix")
       ELSE NoInfo

\* A row of table a: name n, hash h, cipher key e.
Row(n, h, e) == [n |-> n, h |-> h, e |-> e, e_null |-> FALSE]

\* A row whose column e is NULL.
RowWithoutKey(n, h) == [n |-> n, h |-> h, e |-> 0, e_null |-> TRUE]

StoredRows ==
    {Row(<<"a", "b">>, "h1", 999),
     Row(<<"a", "b", "c">>, "h2", 0),
     RowWithoutKey(<<"a", "b", "d">>, "h3"),
     Row(<<"a", "_">>, "h4", 1),
     Row(<<"a", "_", "c">>, "h5", 999),
     Row(<<"a", "x", "c">>, "h6", -1),
     Row(<<"A", "B", "c">>, "h7", 999),
     Row(<<"x", "a", "b">>, "h8", 999),
     Row(<<"a", "z", "%", "b", "c">>, "h9", 999)}

RequestedNames ==
    {<<"a", "b">>, <<"a", "_">>, <<"a", "%", "b">>, <<"A", "b">>, <<"b">>}

\* The rows of the table in any order; names are unique in the table.
InitIndex ==
    /\ \E k \in 0..MaxRows :
          meta_rows \in {t \in [1..k -> StoredRows] :
                            \A i, j \in 1..k : t[i] = t[j] => i = j}
    /\ name_pattern \in RequestedNames
    /\ asset_info = [called |-> FALSE]
    /\ MergeIdle
    /\ CryptIdle
    /\ AssetIdle
    /\ TimelineIdle
    /\ MotionIdle
    /\ LoaderIdle
    /\ LaterIdle

GetAssetInfo ==
    /\ ~asset_info.called
    /\ asset_info' = get_asset_info(meta_rows, name_pattern)
    /\ UNCHANGED <<meta_rows, name_pattern, mergeVars, cryptVars, assetVars,
                   timelineVars, motionVars, loaderVars, laterVars>>

NextIndex == GetAssetInfo

SpecIndex == InitIndex /\ [][NextIndex]_vars

-----------------------------------------------------------------------------
(* AssetManager.download_asset, ensure_asset_is_ready and load_bundle,       *)
(* asset_loader.py lines 469-553                                              *)

\* Largest number of calls the pipelines make in all.
MaxCalls == 3

\* The threads or processes that use the content store at the same time.
Pipelines == {1, 2}

\* The resource of a hash arrives in chunks; the model cuts it where the
\* chunks end, after 100, 256 and 300 bytes.
SegmentEnds == <<100, 256, 300>>

\* Number of chunks of the resource of a hash: 256 bytes for h4, else 300.
remote_segments(hash_str) == IF hash_str = "h4" THEN 2 ELSE 3

NoStoredFile == [exists |-> FALSE, segs |-> {}, size |-> 0]

\* The file holds every byte of the resource.
Complete(file, hash_str) ==
    file.exists /\ file.segs = 1..remote_segments(hash_str)

\* Path(bundle_path).read_bytes(), line 542: the bytes of the chunks written,
\* zeros where a chunk below the end of the file was not written.
file_bytes(file) ==
    [i \in 1..(IF file.size = 0 THEN 0 ELSE SegmentEnds[file.size]) |->
        IF SetMin({k \in DOMAIN SegmentEnds : i <= SegmentEnds[k]}) \in file.segs
        THEN (7 * (i - 1) + 13) % 256
        ELSE 0]

\* A pipeline outside any call; name, result and path are those of its last
\* call.
IdlePipe ==
    [pc |-> "idle", op |-> "none", name |-> <<>>, hash |-> "", offset |-> 0,
     linked |-> FALSE, result |-> "none", path |-> "", calls |-> 0,
     saw_partial |-> FALSE]

\* Mutant of ensure_decision: AUTO_DOWNLOAD_ASSETS is not consulted.
ensure_decision_ignoring_flag(info, file, flag, category) ==
    IF ~info.found THEN "not_found"
    ELSE IF file.exists THEN "ready"
    ELSE IF category \notin {"bundle", "generic"} THEN "bad_category"
    ELSE "download"

\* Lines 518-527 and 474-487: what ensure_asset_is_ready does for a name.
ensure_decision(info, file, flag, category) ==
    IF ~info.found THEN "not_found"
    ELSE IF file.exists THEN "ready"
    ELSE IF ~flag THEN "disabled"
    ELSE IF category \notin {"bundle", "generic"} THEN "bad_category"
    ELSE "download"

\* Mutant of load_bundle_data: the key is not looked at.
load_bundle_data_ignoring_key(raw, encryption_key_int) ==
    IF Len(raw) > 256
    THEN decrypt_asset_data(raw, create_asset_final_key(encryption_key_int))
    ELSE raw

\* Lines 544-547: processed_data of load_bundle.
load_bundle_data(raw, encryption_key_int) ==
    IF encryption_key_int # 0 /\ Len(raw) > 256
    THEN decrypt_asset_data(raw, create_asset_final_key(encryption_key_int))
    ELSE raw

\* The call of pipeline p ends: ensure_asset_is_ready (and load_bundle, if
\* that was the call) returns.
Returns(p, result, partial) ==
    [IdlePipe EXCEPT !.result = result,
                     !.path = IF result = "path" THEN pipe[p].hash ELSE "",
                     !.name = pipe[p].name,
                     !.calls = pipe[p].calls,
                     !.saw_partial = partial]

\* ensure_asset_is_ready handed local_path back: its caller has the path,
\* load_bundle goes on to read it.
PathReady(p, q, partial) ==
    IF q.op = "load_bundle"
    THEN [q EXCEPT !.pc = "ensured", !.saw_partial = partial]
    ELSE [IdlePipe EXCEPT !.result = "path", !.path = q.hash,
                          !.name = q.name, !.calls = q.calls,
                          !.saw_partial = partial]

\* os.remove(asset_path), line 514: the path is gone; a file object another
\* pipeline still holds writes to a file that no path leads to.
Unlinked(p) ==
    [r \in Pipelines |->
        IF r = p THEN pipe[r] ELSE [pipe[r] EXCEPT !.linked = FALSE]]

LoaderFrame == <<mergeVars, cryptVars, assetVars, timelineVars, motionVars,
                 name_pattern, asset_info, meta_rows, auto_download, laterVars>>

\* The calls begun so far.
calls_made == pipe[1].calls + pipe[2].calls

\* A call ensure_asset_is_ready(name, category) or load_bundle(name) by
\* pipeline p, up to its return or to the request sent at line 492.
EnsureBegin(p, op, name, category) ==
    /\ pipe[p].pc = "idle"
    /\ calls_made < MaxCalls
    /\ op = "load_bundle" => category = "bundle"
    /\ LET info == get_asset_info(meta_rows, name)
           decision == ensure_decision(info, store, auto_download, category)
           q == [IdlePipe EXCEPT !.op = op, !.name = name, !.hash = info.hash,
                                 !.calls = pipe[p].calls + 1]
       IN CASE decision = "ready" ->
                 /\ pipe' = [pipe EXCEPT ![p] =
                               PathReady(p, q, ~Complete(store, info.hash))]
                 /\ UNCHANGED <<store, dir_exists, net_requests>>
            [] decision = "download" ->
                 /\ pipe' = [pipe EXCEPT ![p] = [q EXCEPT !.pc = "requesting"]]
                 /\ dir_exists' = TRUE
                 /\ net_requests' = [net_requests EXCEPT ![p] = @ + 1]
                 /\ UNCHANGED store
            [] OTHER ->
                 /\ pipe' = [pipe EXCEPT ![p] =
                               [IdlePipe EXCEPT !.name = q.name,
                                                !.calls = q.calls]]
                 /\ UNCHANGED <<store, dir_exists, net_requests>>
    /\ UNCHANGED <<env_input, LoaderFrame>>

\* The answer to the request arrives.  A good status opens asset_path for
\* writing (line 497), which empties the file if it is there; an HTTP error
\* status or a connection error is a RequestException (lines 511-515).
Respond(p, outcome) ==
    /\ pipe[p].pc = "requesting"
    /\ IF outcome = "ok"
       THEN /\ store' = [exists |-> TRUE, segs |-> {}, size |-> 0]
            /\ pipe' = [pipe EXCEPT ![p].pc = "streaming", ![p].offset = 0,
                                    ![p].linked = TRUE]
       ELSE /\ store' = NoStoredFile
            /\ pipe' = [Unlinked(p) EXCEPT ![p] = Returns(p, "none", FALSE)]
    /\ UNCHANGED <<dir_exists, net_requests, env_input, LoaderFrame>>

\* Lines 504-506: the next chunk arrives and is written.
Chunk(p) ==
    /\ pipe[p].pc = "streaming"
    /\ pipe[p].offset < remote_segments(pipe[p].hash)
    /\ pipe' = [pipe EXCEPT ![p].offset = @ + 1]
    /\ store' = IF pipe[p].linked
                THEN [store EXCEPT !.segs = @ \cup {pipe[p].offset + 1},
                                   !.size = IF @ < pipe[p].offset + 1
                                            THEN pipe[p].offset + 1 ELSE @]
                ELSE store
    /\ UNCHANGED <<dir_exists, net_requests, env_input, LoaderFrame>>

\* Lines 508-509: the stream ends, download_asset returns True.
StreamEnd(p) ==
    /\ pipe[p].pc = "streaming"
    /\ pipe[p].offset = remote_segments(pipe[p].hash)
    /\ pipe' = [pipe EXCEPT ![p] =
                  PathReady(p, pipe[p],
                            store.exists /\ ~Complete(store, pipe[p].hash))]
    /\ UNCHANGED <<store, dir_exists, net_requests, env_input, LoaderFrame>>

\* The connection breaks while streaming: a RequestException, lines 511-515.
StreamError(p) ==
    /\ pipe[p].pc = "streaming"
    /\ store' = NoStoredFile
    /\ pipe' = [Unlinked(p) EXCEPT ![p] = Returns(p, "none", FALSE)]
    /\ UNCHANGED <<dir_exists, net_requests, env_input, LoaderFrame>>

\* f.write raises OSError (line 505, a full disk): not a RequestException,
\* so the handler of line 511 is not run and the exception leaves
\* download_asset, ensure_asset_is_ready and load_bundle (line 534).
WriteError(p) ==
    /\ pipe[p].pc = "streaming"
    /\ pipe[p].offset < remote_segments(pipe[p].hash)
    /\ pipe' = [pipe EXCEPT ![p] = Returns(p, "raised", FALSE)]
    /\ UNCHANGED <<store, dir_exists, net_requests, env_input, LoaderFrame>>

\* Lines 539-553 of load_bundle: the key is looked up, the file is read and
\* handed, decrypted or not, to UnityPy.load; a missing file is an exception
\* that makes load_bundle return None.
ReadBundle(p) ==
    /\ pipe[p].pc = "ensured"
    /\ IF ~store.exists
       THEN /\ pipe' = [pipe EXCEPT ![p] = Returns(p, "none", pipe[p].saw_partial)]
            /\ UNCHANGED env_input
       ELSE LET encryption_key_int == get_asset_info(meta_rows, pipe[p].name).key
                raw == file_bytes(store)
            IN /\ env_input' = [env_input EXCEPT ![p] =
                     [loaded |-> TRUE, raw |-> raw, key |-> encryption_key_int,
                      processed |-> load_bundle_data(raw, encryption_key_int)]]
               /\ pipe' = [pipe EXCEPT ![p] =
                     Returns(p, "env",
                             pipe[p].saw_partial \/ ~Complete(store, pipe[p].hash))]
    /\ UNCHANGED <<store, dir_exists, net_requests, LoaderFrame>>

\* The index holds one record; the file of its hash is in the store or not.
LoaderRows ==
    {Row(<<"a", "b">>, "h1", 999), Row(<<"a", "b", "c">>, "h2", 0),
     RowWithoutKey(<<"a", "b", "d">>, "h3"), Row(<<"a", "_">>, "h4", 1)}

InitLoader ==
    /\ \E row \in LoaderRows :
          /\ meta_rows = <<row>>
          /\ store \in {NoStoredFile,
                        [exists |-> TRUE, segs |-> 1..remote_segments(row.h),
                         size |-> remote_segments(row.h)]}
    /\ auto_download \in BOOLEAN
    /\ dir_exists = store.exists
    /\ pipe = [p \in Pipelines |-> IdlePipe]
    /\ net_requests = [p \in Pipelines |-> 0]
    /\ env_input = [p \in Pipelines |->
                      [loaded |-> FALSE, raw |-> <<>>, key |-> 0, processed |-> <<>>]]
    /\ name_pattern = <<>>
    /\ asset_info = [called |-> FALSE]
    /\ MergeIdle
    /\ CryptIdle
    /\ AssetIdle
    /\ TimelineIdle
    /\ MotionIdle
    /\ LaterIdle

\* A step of pipeline p.
PipelineStep(p) ==
    \/ \E op \in {"ensure", "load_bundle"},
          name \in {meta_rows[1].n, <<"z">>},
          category \in {"bundle", "generic", "other"} :
             EnsureBegin(p, op, name, category)
    \/ \E outcome \in {"ok", "http_error", "connection_error"} :
          Respond(p, outcome)
    \/ Chunk(p)
    \/ StreamEnd(p)
    \/ StreamError(p)
    \/ WriteError(p)
    \/ ReadBundle(p)

NextLoader == \E p \in Pipelines : PipelineStep(p)

\* Two pipelines on one content store.
SpecLoader == InitLoader /\ [][NextLoader]_vars

NextDownload == PipelineStep(1)

\* What a ReadBundle step does to the pipeline: load_bundle, holding the
\* path, goes on to its return.
LoadBundleReturns(p) ==
    /\ pipe[p].pc = "ensured"
    /\ \E result \in {"none", "env"}, partial \in BOOLEAN :
          pipe' = [pipe EXCEPT ![p] = Returns(p, result, partial)]

\* One pipeline alone.  Code that can take a step takes it; nothing makes
\* the origin answer or go on with the stream.
SpecDownload ==
    InitLoader /\ [][NextDownload]_vars /\ WF_pipe(LoadBundleReturns(1))

-----------------------------------------------------------------------------
(* parse_race_story, parse_lyrics and parse_home_timeline, asset_loader.py   *)
(* lines 175-309, for a bundle that holds the object the walker looks for    *)
(* (a MonoBehaviour with textData, a TextAsset with m_Script, a              *)
(* MonoBehaviour with BlockList)                                              *)

\* Largest number of elements in the list a walker loops over.
MaxItems == 3

\* The elements of BlockList as parse_home_timeline tells them apart:
\* no usable TextTrack/ClipList (line 274), no path id (line 279), no object
\* of that path id (line 282), read_typetree or the name lookup raising
\* (line 305), a typetree without Text (line 286), a text clip.
HomeShapes == {"no_track", "no_path_id", "no_object", "raises", "no_text", "text"}

HomeBlocks == {[shape |-> s] : s \in HomeShapes}

\* Lines 273-306: what one BlockList element adds to text_blocks and what it
\* prints.  Only the except branch prints (line 306).
home_step(block_index, block) ==
    [blocks |-> IF block.shape = "text"
                THEN <<[block_index |-> block_index]>> ELSE <<>>,
     log    |-> IF block.shape = "raises"
                THEN <<[at |-> block_index, kind |-> "error"]>> ELSE <<>>]

\* Line 309: return extracted_data if extracted_data["text_blocks"] else None
home_return(blocks) == IF blocks # <<>> THEN "document" ELSE "none"

\* The elements of textData: a dict with "text" and the given "key", or
\* anything else.
RaceItems ==
    {[is_text |-> FALSE, key |-> 0]} \cup {[is_text |-> TRUE, key |-> k] : k \in 0..2}

\* Lines 203-209 (the second definition of parse_race_story, the one in
\* effect; lines 183-189 are the same): block_index is the item's "key";
\* other items are passed over, nothing is printed.
race_step(item) ==
    IF item.is_text THEN <<[block_index |-> item.key]>> ELSE <<>>

\* The rows csv.reader yields for the lines after the second: a blank line,
\* a row with an empty first field, a row of one field, rows of two and
\* three fields.
LyricRows ==
    {<<>>, <<<<>>, A1>>, <<<<"1">>>>, <<<<"1">>, A1sp>>, <<<<"2">>, T5, A1>>}

\* Line 235: time, text, *_ = row raises ValueError on a row of one field.
unpack_raises(row) == Len(row) < 2

\* Line 234: if not row or not row[0]: continue
row_skipped(row) == row = <<>> \/ row[1] = <<>>

\* Lines 236-240.
lyric_block(row) == [time |-> row[1], jpText |-> strip(row[2]), enText |-> ""]

WalkFrame ==
    <<mergeVars, cryptVars, assetVars, timelineVars, motionVars, indexVars,
      loaderVars, batchVars>>

InitWalk ==
    /\ walk_type \in {"home", "race", "lyrics"}
    /\ \E n \in 0..MaxItems :
          walk_items \in [1..n -> CASE walk_type = "home"   -> HomeBlocks
                                    [] walk_type = "race"   -> RaceItems
                                    [] walk_type = "lyrics" -> LyricRows]
    /\ walk_pos = 0
    /\ walk_blocks = <<>>
    /\ walk_log = <<>>
    /\ walk_result = "running"
    /\ MergeIdle
    /\ CryptIdle
    /\ AssetIdle
    /\ TimelineIdle
    /\ MotionIdle
    /\ IndexIdle
    /\ LoaderIdle
    /\ BatchIdle

\* One iteration of the loop of line 273 over enumerate(BlockList).
HomeBlock ==
    /\ walk_type = "home"
    /\ walk_result = "running"
    /\ walk_pos < Len(walk_items)
    /\ LET step == home_step(walk_pos, walk_items[walk_pos + 1])
       IN /\ walk_blocks' = walk_blocks \o step.blocks
          /\ walk_log' = walk_log \o step.log
    /\ walk_pos' = walk_pos + 1
    /\ UNCHANGED <<walk_type, walk_items, walk_result, WalkFrame>>

\* One iteration of the loop of line 203 over tree["textData"].
RaceItem ==
    /\ walk_type = "race"
    /\ walk_result = "running"
    /\ walk_pos < Len(walk_items)
    /\ walk_blocks' = walk_blocks \o race_step(walk_items[walk_pos + 1])
    /\ walk_pos' = walk_pos + 1
    /\ UNCHANGED <<walk_type, walk_items, walk_log, walk_result, WalkFrame>>

\* One iteration of the loop of line 233 over the csv rows.  A row that
\* cannot be unpacked raises inside the try of line 219: the except branch
\* prints (line 246), the blocks built so far are dropped with
\* extracted_data, no other TextAsset is left, and the walker prints its
\* warning and returns None (lines 248-249).
LyricRow ==
    /\ walk_type = "lyrics"
    /\ walk_result = "running"
    /\ walk_pos < Len(walk_items)
    /\ walk_pos' = walk_pos + 1
    /\ LET row == walk_items[walk_pos + 1]
       IN IF row_skipped(row)
          THEN UNCHANGED <<walk_blocks, walk_log, walk_result>>
          ELSE IF unpack_raises(row)
          THEN /\ walk_blocks' = <<>>
               /\ walk_log' = Append(walk_log, [at |-> walk_pos, kind |-> "error"])
               /\ walk_result' = "none"
          ELSE /\ walk_blocks' = Append(walk_blocks, lyric_block(row))
               /\ UNCHANGED <<walk_log, walk_result>>
    /\ UNCHANGED <<walk_type, walk_items, WalkFrame>>

\* The loop is over: lines 210, 242-249 and 309.
WalkReturn ==
    /\ walk_result = "running"
    /\ walk_pos = Len(walk_items)
    /\ walk_result' = IF walk_type = "race" THEN "document"
                      ELSE home_return(walk_blocks)
    /\ UNCHANGED <<walk_type, walk_items, walk_pos, walk_blocks, walk_log,
                   WalkFrame>>

NextWalk == HomeBlock \/ RaceItem \/ LyricRow \/ WalkReturn

SpecWalk == InitWalk /\ [][NextWalk]_vars

-----------------------------------------------------------------------------
(* run, extractor.py lines 127-181, in batch mode without --group and --id,   *)
(* with StoryId.parse_from_path, common.py lines 28-59, and                   *)
(* AssetManager.query_asset_names, asset_loader.py lines 566-594              *)

\* Largest number of assets in a batch.
MaxAssets == 2

\* str.split(sep): the pieces of text between the occurrences of sep.
RECURSIVE split(_, _)
split(text, sep) ==
    LET at == {i \in DOMAIN text : text[i] = sep}
    IN IF at = {} THEN <<text>>
       ELSE <<SubSeq(text, 1, SetMin(at) - 1)>>
                \o split(SubSeq(text, SetMin(at) + 1, Len(text)), sep)

StoryIdRaised == [raised |-> TRUE, id |-> <<>>, group |-> <<>>]

\* common.py lines 28-33 and 44-46, asset_type "race", on the last segment
\* of the path: id is filename.split('_')[1] (IndexError without a second
\* piece), group its first four characters.
parse_from_path(type, filename) ==
    LET parts == split(filename, "_")
    IN CASE type = "race" ->
            IF Len(parts) < 2 THEN StoryIdRaised
            ELSE [raised |-> FALSE, id |-> parts[2],
                  group |-> SubSeq(parts[2], 1, Min2(4, Len(parts[2])))]

storyrace == <<"s", "t", "o", "r", "y", "r", "a", "c", "e">>

\* asset_loader.py line 573, the pattern of type "race" from its last
\* segment on; the segments before it hold no wildcard.
race_pattern == storyrace \o <<"_", "%", "%", "%", "%", "%", "%", "%", "%", "%">>

\* Last segments of names in table a.
StoredFilenames ==
    {storyrace, storyrace \o <<"_", "1">>, storyrace \o <<"x", "1">>,
     <<"s", "t", "o", "r", "y", "_", "1">>}

\* Lines 586-589: the names query_asset_names("race") yields.
query_asset_names == {n \in StoredFilenames : like(race_pattern, n)}

\* An asset of the list: its name, its bundle and its workspace record.
BatchAssets ==
    {[name |-> n, bundle |-> [loads |-> l, texts |-> <<T5>>], workspace |-> w] :
        n \in query_asset_names, l \in BOOLEAN,
        w \in {NoFile, File(<<Block(T5, "E1")>>)}}

BatchFrame ==
    <<mergeVars, cryptVars, assetVars, timelineVars, motionVars, indexVars,
      loaderVars, walkVars>>

\* The state at line 150: assets_to_process is the list the query returned.
InitBatch ==
    /\ args \in {[type |-> "race", update |-> u, overwrite |-> o] :
                    u, o \in BOOLEAN} \ {[type |-> "race", update |-> TRUE,
                                          overwrite |-> TRUE]}
    /\ \E n \in 0..MaxAssets : assets_to_process \in [1..n -> BatchAssets]
    /\ results = [success |-> 0, failed |-> 0, skipped |-> 0]
    /\ outcomes = <<>>
    /\ run_pc = "start"
    /\ MergeIdle
    /\ CryptIdle
    /\ AssetIdle
    /\ TimelineIdle
    /\ MotionIdle
    /\ IndexIdle
    /\ LoaderIdle
    /\ WalkIdle

\* Lines 152-158: an empty list ends the run, else the loop starts.
RunStart ==
    /\ run_pc = "start"
    /\ run_pc' = IF assets_to_process = <<>> THEN "empty" ELSE "loop"
    /\ UNCHANGED <<args, assets_to_process, results, outcomes, BatchFrame>>

\* Lines 160-163: one iteration of the loop.  process_asset calls
\* StoryId.parse_from_path before its try (line 96): an exception there
\* leaves process_asset and the loop, and is caught by the except of run
\* (line 170), which prints the traceback and ends the run.
ProcessNext ==
    /\ run_pc = "loop"
    /\ Len(outcomes) < Len(assets_to_process)
    /\ LET asset == assets_to_process[Len(outcomes) + 1]
       IN IF parse_from_path(args.type, asset.name).raised
          THEN /\ run_pc' = "critical"
               /\ UNCHANGED <<results, outcomes>>
          ELSE LET status_ == process_asset(args.type, asset.bundle,
                                            asset.workspace, NoMod,
                                            args.update, args.overwrite).status
               IN /\ results' = [results EXCEPT ![status_] = @ + 1]
                  /\ outcomes' = Append(outcomes, status_)
                  /\ UNCHANGED run_pc
    /\ UNCHANGED <<args, assets_to_process, BatchFrame>>

\* Lines 165-168: the summary is printed after the last asset.
RunSummary ==
    /\ run_pc = "loop"
    /\ Len(outcomes) = Len(assets_to_process)
    /\ run_pc' = "summary"
    /\ UNCHANGED <<args, assets_to_process, results, outcomes, BatchFrame>>

NextBatch == RunStart \/ ProcessNext \/ RunSummary

SpecBatch == InitBatch /\ [][NextBatch]_vars

-----------------------------------------------------------------------------
(* Properties of merge_translations *)

\* r > 0.85, stated on the fraction itself.
StrictlyAbove85(r) == r[1] * 100 > 85 * r[2]

\* The existing blocks the exact-match index holds for jp: those with a
\* non-empty source text whose trimmed text is the trimmed jp.
ExactCandidates(jp, old) ==
    {k \in DOMAIN old : old[k].jpText # <<>> /\ strip(old[k].jpText) = strip(jp)}

\* The existing blocks no other existing block is more similar to jp than.
MostSimilar(jp, old) ==
    {k \in DOMAIN old :
        \A m \in DOMAIN old :
            ~RatioLess(similarity(jp, old[k].jpText), similarity(jp, old[m].jpText))}

Candidates(jp, old) ==
    IF ExactCandidates(jp, old) # {} THEN ExactCandidates(jp, old)
    ELSE MostSimilar(jp, old)

\* C1: after merge_translations returns, every translated field of every
\* block of the result (enText, enName, each choice's enText) is the value the
\* field had in new_data before the call or the same field of some block of
\* the existing document: no translated string is invented.
C1_NoInventedTranslation ==
    merge_pc = "merged" =>
        \A i \in DOMAIN new_data :
            LET r   == new_data[i]
                b   == new_before[i]
                old == existing.text_blocks
            IN /\ \/ r.enText = b.enText
                  \/ \E k \in DOMAIN old : r.enText = old[k].enText
               /\ "enName" \in r.keys =>
                    \/ "enName" \in b.keys /\ r.enName = b.enName
                    \/ \E k \in DOMAIN old :
                          "enName" \in old[k].keys /\ r.enName = old[k].enName
               /\ \A c \in DOMAIN r.choices :
                    \/ r.choices[c].enText = b.choices[c].enText
                    \/ \E k \in DOMAIN old :
                          /\ c \in DOMAIN old[k].choices
                          /\ r.choices[c].enText = old[k].choices[c].enText

\* A merge that copied a text, a speaker name and a choice text.
C1_Witness ==
    /\ merge_pc = "merged"
    /\ \E i \in matched :
          /\ new_data[i].enText # new_before[i].enText
          /\ new_data[i].enName # new_before[i].enName
          /\ \E c \in DOMAIN new_data[i].choices :
                new_data[i].choices[c].enText # new_before[i].choices[c].enText

\* C2 (as claimed): merging a document against itself leaves every block
\* with the translated text it had.
C2_SelfMergeKeepsEveryTranslation ==
    (merge_pc = "merged" /\ existing = File(new_before)) =>
        \A i \in DOMAIN new_data : new_data[i].enText = new_before[i].enText

\* C4: for each new block with non-empty source text the candidate is the
\* exact-match existing block if there is one, else an existing block of
\* maximal similarity; the candidate's translated text is copied if and only
\* if the similarity of the two source texts is strictly greater than 0.85,
\* and a block that is not matched keeps what it had.
C4_CopyIffAboveThreshold ==
    (merge_pc = "merged" /\ existing.exists) =>
        \A i \in DOMAIN new_before :
            new_before[i].jpText # <<>> =>
                LET jp    == new_before[i].jpText
                    old   == existing.text_blocks
                    cands == Candidates(jp, old)
                IN IF cands = {}
                   THEN i \notin matched /\ new_data[i] = new_before[i]
                   ELSE \E k \in cands :
                          IF StrictlyAbove85(similarity(jp, old[k].jpText))
                          THEN i \in matched /\ new_data[i].enText = old[k].enText
                          ELSE i \notin matched /\ new_data[i] = new_before[i]

\* A merge in which one block met a candidate of similarity exactly 0.85 and
\* was left alone, and another block was matched by similarity alone.
C4_Witness ==
    /\ merge_pc = "merged"
    /\ \E i \in DOMAIN new_before :
          /\ new_before[i].jpText = L17
          /\ \E k \in DOMAIN existing.text_blocks :
                /\ Candidates(L17, existing.text_blocks) = {k}
                /\ similarity(L17, existing.text_blocks[k].jpText) = <<34, 40>>
          /\ i \notin matched
          /\ new_data[i].enText = ""
    /\ \E j \in matched :
          ExactCandidates(new_before[j].jpText, existing.text_blocks) = {}

\* C5: two distinct new blocks whose best candidate is the same existing
\* block, each with similarity > 0.85, both receive that block's translated
\* text, whichever of the two comes first.
C5_SharedCandidateServesBoth ==
    merge_pc = "merged" =>
        \A i, j \in DOMAIN new_before :
            LET old == existing.text_blocks
                ji  == new_before[i].jpText
                jj  == new_before[j].jpText
                k   == best_match(ji, old)
            IN (/\ i # j
                /\ ji # <<>> /\ jj # <<>>
                /\ k # 0
                /\ best_match(jj, old) = k
                /\ StrictlyAbove85(similarity(ji, old[k].jpText))
                /\ StrictlyAbove85(similarity(jj, old[k].jpText)))
               => /\ new_data[i].enText = old[k].enText
                  /\ new_data[j].enText = old[k].enText

\* Two new blocks of different source text, the exact match first in one
\* order and second in the other, served by the same existing block.
C5_Witness ==
    /\ merge_pc = "merged"
    /\ Len(new_before) >= 2
    /\ new_before[1].jpText = T6
    /\ new_before[2].jpText = T5
    /\ best_match(T5, existing.text_blocks) # 0
    /\ best_match(T5, existing.text_blocks) = best_match(T6, existing.text_blocks)
    /\ {1, 2} \subseteq matched
    /\ new_data[1].enText = new_data[2].enText
    /\ new_data[1].enText # ""

\* A block with its translated fields erased.
Untranslated(b) ==
    [b EXCEPT !.enText  = "",
              !.enName  = "",
              !.keys    = @ \ {"enName"},
              !.choices = [c \in DOMAIN @ |-> [@[c] EXCEPT !.enText = ""]]]

\* C6: merge_translations changes no source text, no block_index, neither the
\* number or order of the blocks nor of their choices, and never the existing
\* document: apart from the translated fields the new document is as it was.
C6_MergeFrame ==
    [][/\ existing' = existing
       /\ Len(new_data') = Len(new_data)
       /\ \A i \in DOMAIN new_data :
            /\ Untranslated(new_data'[i]) = Untranslated(new_data[i])
            /\ Len(new_data'[i].choices) = Len(new_data[i].choices)]_vars

\* A merge that rewrote the choices of a block whose candidate has more
\* choices than it has itself, and one whose candidate has fewer.
C6_Witness ==
    /\ merge_pc = "merged"
    /\ \E i \in matched :
          /\ Len(new_data[i].choices) = 2
          /\ new_data[i].choices[1].enText = "C1"
          /\ new_data[i].choices[2].enText = "C2"
    /\ \E i \in matched :
          /\ Len(new_data[i].choices) = 1
          /\ new_data[i].choices[1].enText # new_before[i].choices[1].enText

-----------------------------------------------------------------------------
(* Properties of process_asset *)

SourceOf(blocks) == [i \in DOMAIN blocks |-> blocks[i].jpText]

\* C3 (as claimed): for every asset type, re-extracting in update mode an
\* asset whose extracted source text is that of the existing workspace record
\* leaves every previously saved non-empty translated text in the record.
C3_UpdateKeepsTranslations ==
    (/\ last_call.update
     /\ status # "none"
     /\ workspace_prev.exists
     /\ workspace_file.exists
     /\ SourceOf(workspace_file.text_blocks) = SourceOf(workspace_prev.text_blocks))
    => \A i \in DOMAIN workspace_prev.text_blocks :
          workspace_prev.text_blocks[i].enText # "" =>
             workspace_file.text_blocks[i].enText
                = workspace_prev.text_blocks[i].enText

-----------------------------------------------------------------------------
(* Properties of decrypt_asset_data and create_asset_final_key *)

\* C7: for every payload longer than 256 bytes and every non-empty
\* keystream, two decrypt_asset_data calls with the same keystream return
\* the original payload, and every call returns as many bytes as it was given.
C7_DecryptTwiceIsIdentity ==
    /\ Len(processed_data) = Len(prev_data)
    /\ (rounds = 2 /\ used_keys[1] = used_keys[2] /\ used_keys[1] # <<>>
          /\ Len(raw_data) > 256)
       => processed_data = raw_data

C7_Witness ==
    /\ rounds = 2
    /\ used_keys[1] = used_keys[2]
    /\ used_keys[1] # <<>>
    /\ Len(raw_data) > 256
    /\ prev_data # raw_data
    /\ processed_data = raw_data

\* C8: decrypt_asset_data(data, keystream) returns bytes in which byte i is
\* data[i] for i < 256 and data[i] XOR keystream[i mod len(keystream)] for
\* i >= 256, i being the offset from the start of the payload.
C8_DecryptByAbsoluteOffset ==
    rounds >= 1 =>
        LET keystream == used_keys[rounds]
        IN /\ Len(processed_data) = Len(prev_data)
           /\ \A i \in 0..(Len(prev_data) - 1) :
                processed_data[i + 1] =
                    IF i < 256 THEN prev_data[i + 1]
                    ELSE Xor(prev_data[i + 1],
                             keystream[(i % Len(keystream)) + 1])

\* A call whose keystream is used past its end and starts over.
C8_Witness ==
    /\ rounds = 1
    /\ Len(used_keys[1]) = 88
    /\ Len(raw_data) = 345
    /\ \A i \in 1..256 : processed_data[i] = raw_data[i]
    /\ processed_data[257] # raw_data[257]
    /\ processed_data[345] # raw_data[345]

\* The decoding of a 300-byte payload of an asset whose cipher key is 999
\* (load_bundle, lines 544-547) has been done.
Decoded300WithKey999 ==
    /\ rounds = 1
    /\ Len(raw_data) = 300
    /\ bundle_key = 999
    /\ used_keys = <<create_asset_final_key(bundle_key)>>

\* C9 as stated: byte 256+k of the 300-byte payload is XORed with
\* keystream[k] for k in 0..43, bytes 0..255 are unchanged.
C9_KeystreamFromItsStart ==
    Decoded300WithKey999 =>
        LET keystream == create_asset_final_key(999)
        IN /\ \A i \in 0..255 : processed_data[i + 1] = raw_data[i + 1]
           /\ \A k \in 0..43 :
                processed_data[256 + k + 1] =
                    Xor(raw_data[256 + k + 1], keystream[k + 1])

\* C9, amended: byte 256+k of the 300-byte payload is XORed with
\* keystream[(256 + k) mod 88], that is keystream[80 + k] for k in 0..7 and
\* keystream[k - 8] for k in 8..43; bytes 0..255 are unchanged.
C9_KeystreamFromAbsoluteOffset ==
    Decoded300WithKey999 =>
        LET keystream == create_asset_final_key(999)
        IN /\ Len(keystream) = 88
           /\ \A i \in 0..255 : processed_data[i + 1] = raw_data[i + 1]
           /\ \A k \in 0..7 :
                processed_data[256 + k + 1] =
                    Xor(raw_data[256 + k + 1], keystream[80 + k + 1])
           /\ \A k \in 8..43 :
                processed_data[256 + k + 1] =
                    Xor(raw_data[256 + k + 1], keystream[k - 8 + 1])

C9_Witness ==
    /\ Decoded300WithKey999
    /\ \A k \in 0..43 : processed_data[256 + k + 1] # raw_data[256 + k + 1]

\* Byte j of the non-negative number n below 2^32, least significant first.
ByteOf(n, j) == IF j >= 4 THEN 0 ELSE (n \div (256 ^ j)) % 256

\* Byte j of k written as a signed 64-bit integer, least significant byte
\* first, a negative k in two's complement (the complement of -k - 1).
SignedLittleEndianByte(k, j) ==
    IF k >= 0 THEN ByteOf(k, j) ELSE 255 - ByteOf(-k - 1, j)

\* C10: create_asset_final_key(bundle_key) returns 8 * len(base_key) bytes,
\* the byte at position i*8+j being base_key[i] XOR b[j], b the 8
\* little-endian bytes of bundle_key as a signed 64-bit integer.
C10_FinalKeyLayout ==
    key_origin = "derived" =>
        /\ Len(final_key) = 8 * Len(ASSET_BASE_KEY)
        /\ \A i \in 0..(Len(ASSET_BASE_KEY) - 1) : \A j \in 0..7 :
             final_key[i * 8 + j + 1] =
                 Xor(ASSET_BASE_KEY[i + 1], SignedLittleEndianByte(bundle_key, j))

\* The key of a negative cipher key: -999 is e7 03 00 .. complemented plus
\* one, 19 fc ff ff ff ff ff ff, so the key starts with 53^19 = 4a and
\* ends with fb^ff = 04.
C10_Witness ==
    /\ key_origin = "derived"
    /\ bundle_key = -999
    /\ Len(final_key) = 88
    /\ final_key[1] = 74
    /\ final_key[2] = 175
    /\ final_key[88] = 4


-----------------------------------------------------------------------------
(* Properties of parse_story_timeline *)

\* The text clip of the k-th processed block.
Processed(k) == block_list[cue_log[k].block_idx + 1]

\* The original cue id is present and not -1.
HasValidCue(clip) == clip.has_cue /\ clip.CueId # -1

\* G: the number of processed blocks before the k-th with difference flag 4
\* and a valid cue id.
EarlierFlag4(k) ==
    Cardinality({j \in 1..(k - 1) :
                    Processed(j).DifferenceFlag = 4 /\ HasValidCue(Processed(j))})

\* C19: blocks are processed strictly in list order; the effective cue id of
\* a block with a valid cue id is original + (1 if its flag is 2) + G, G the
\* number of earlier processed blocks with flag 4 and a valid cue id; G never
\* decreases, a flag of 2 leaves it alone and a flag-4 block's increment
\* applies only to the blocks after it.
C19_EffectiveCueId ==
    /\ {cue_log[k].block_idx : k \in DOMAIN cue_log}
          = {i \in 1..block_idx : block_list[i + 1].ok}
    /\ \A k \in DOMAIN cue_log :
          /\ k > 1 => cue_log[k - 1].block_idx < cue_log[k].block_idx
          /\ cue_log[k].offset_before = EarlierFlag4(k)
          /\ cue_log[k].offset_after = EarlierFlag4(k + 1)
          /\ cue_log[k].offset_after >= cue_log[k].offset_before
          /\ Processed(k).DifferenceFlag = 2 =>
                cue_log[k].offset_after = cue_log[k].offset_before
          /\ HasValidCue(Processed(k)) =>
                cue_log[k].final_cue_id =
                    Processed(k).CueId
                    + (IF Processed(k).DifferenceFlag = 2 THEN 1 ELSE 0)
                    + EarlierFlag4(k)
    /\ global_cue_offset = EarlierFlag4(Len(cue_log) + 1)

\* A flag-4 block, then a malformed one, then a flag-2 block: 10 + 1 + 1.
C19_Witness ==
    /\ Len(block_list) = 4
    /\ block_idx = 3
    /\ block_list[2] = Clip(TRUE, 20, 4)
    /\ ~block_list[3].ok
    /\ block_list[4] = Clip(TRUE, 10, 2)
    /\ Len(cue_log) = 2
    /\ cue_log[1].final_cue_id = 20
    /\ cue_log[2].final_cue_id = 12
    /\ global_cue_offset = 1

\* In the walked BlockList, block b has cue id 10 and flag 2, the later block
\* f has cue id 20 and flag 4, and no other block is flagged.
ExampleBlocks(b, f) ==
    /\ b < f
    /\ f < Len(block_list)
    /\ block_idx = Len(block_list) - 1
    /\ block_list[b + 1] = Clip(TRUE, 10, 2)
    /\ block_list[f + 1] = Clip(TRUE, 20, 4)
    /\ \A i \in 1..(Len(block_list) - 1) :
          i \notin {b, f} => block_list[i + 1].DifferenceFlag = 0

\* The effective cue ids of the example are 11 for b and at_f for f, and the
\* global offset is 1 for every block after f.
ExampleCueIds(b, f, at_f) ==
    \A k \in DOMAIN cue_log :
        /\ cue_log[k].block_idx = b => cue_log[k].final_cue_id = 11
        /\ cue_log[k].block_idx = f => cue_log[k].final_cue_id = at_f
        /\ cue_log[k].block_idx > f => cue_log[k].offset_before = 1

\* C20 as stated: the flag-4 block's effective cue id is 21.
C20_Flag4BlockShifted ==
    \A b, f \in 1..MaxClips : ExampleBlocks(b, f) => ExampleCueIds(b, f, 21)

\* C20, amended: block B (cue id 10, flag 2) has effective cue id 11, the
\* later flag-4 block with cue id 20 keeps effective cue id 20, and the
\* global offset is 1 for all blocks after it.
C20_Flag4BlockUnshifted ==
    \A b, f \in 1..MaxClips : ExampleBlocks(b, f) => ExampleCueIds(b, f, 20)

C20_Witness ==
    /\ Len(block_list) = 4
    /\ ExampleBlocks(1, 2)
    /\ block_list[4] = Clip(TRUE, 10, 0)
    /\ cue_log[1].final_cue_id = 11
    /\ cue_log[2].final_cue_id = 20
    /\ cue_log[3].final_cue_id = 11
    /\ cue_log[3].offset_before = 1

-----------------------------------------------------------------------------
(* Properties of parse_uianimation *)

\* No value occurs twice in the sequence.
NoRepeats(seq) == \A i, j \in DOMAIN seq : seq[i] = seq[j] => i = j

\* C18: parse_uianimation terminates on every motion graph, self-referencing
\* child ids and longer cycles through both child lists included, and
\* processes each motion id at most once, so that no text of a motion is
\* emitted twice however many parents reference the motion.
C18_TerminatesVisitingOnce ==
    /\ [](/\ NoRepeats(body_runs)
          /\ NoRepeats([k \in DOMAIN ui_blocks |->
                          <<ui_blocks[k].motion_index, ui_blocks[k].text_index>>]))
    /\ <>(ui_pc = "done")

\* Motion 3 references itself and is referenced three times by motion 1 and
\* once by motion 2, which closes a cycle back to motion 1.
C18_Witness ==
    /\ ui_pc = "done"
    /\ root_motion_id = 1
    /\ Len(motion_param_list) = 3
    /\ motion_param_list[1]._objectParamList = <<2, 3>>
    /\ motion_param_list[1]._planeParamList = <<3>>
    /\ motion_param_list[2]._planeParamList = <<1>>
    /\ motion_param_list[3]._planeParamList = <<3>>
    /\ body_runs = <<1, 2, 3>>
    /\ Len(ui_blocks) = 4

-----------------------------------------------------------------------------
(* Properties of get_asset_info *)

\* The stored name n is the requested name followed by some suffix.
StartsWith(n, name) ==
    Len(n) >= Len(name) /\ SubSeq(n, 1, Len(name)) = name

\* The rows stored under exactly the requested name.
ExactRows == {i \in DOMAIN meta_rows : meta_rows[i].n = name_pattern}

\* The rows whose stored name begins with the requested name.
PrefixRows == {i \in DOMAIN meta_rows : StartsWith(meta_rows[i].n, name_pattern)}

\* get_asset_info returned the hash and key of row i, an empty key read as 0.
ReturnedRow(i) ==
    /\ asset_info.found
    /\ asset_info.hash = meta_rows[i].h
    /\ asset_info.key = IF meta_rows[i].e_null THEN 0 ELSE meta_rows[i].e

\* C12: whenever a record is stored under exactly the requested name,
\* get_asset_info returns that record's hash and key, however many other
\* records have the name as a prefix and whatever the row order; the prefix
\* branch is reached only when the exact lookup finds no row.
C12_ExactMatchFirst ==
    asset_info.called =>
        /\ \A i \in ExactRows : ReturnedRow(i) /\ asset_info.via = "exact"
        /\ asset_info.via = "prefix" => ExactRows = {}

\* The exact record is scanned after two records that have its name as a
\* prefix.
C12_Witness ==
    /\ asset_info.called
    /\ Len(meta_rows) = 3
    /\ ExactRows = {3}
    /\ PrefixRows = {1, 2, 3}
    /\ ReturnedRow(3)
    /\ asset_info.via = "exact"

\* C13: with no record under exactly the requested name, get_asset_info
\* returns a record whose stored name is the requested name followed by a
\* suffix if there is one, returns not-found exactly when no stored name
\* begins with the requested name, and never returns a record whose stored
\* name does not start with the requested name.
C13_PrefixMatchIsLiteral ==
    (asset_info.called /\ ExactRows = {}) =>
        /\ asset_info.found <=> PrefixRows # {}
        /\ asset_info.found => \E i \in PrefixRows : ReturnedRow(i)

-----------------------------------------------------------------------------
(* Properties of load_bundle, ensure_asset_is_ready and download_asset *)

\* The cipher key of the record, 0 when the record has none.
KeyOfRecord(row) == IF row.e_null THEN 0 ELSE row.e

\* C11: load_bundle hands the raw file bytes to the container parser
\* unmodified when the file has at most 256 bytes or the asset's cipher key
\* is 0 or absent, and in every other case, and only then, hands over
\* decrypt_asset_data(raw, create_asset_final_key(key)).
C11_DecryptOnlyLongKeyedPayloads ==
    \A p \in Pipelines :
        env_input[p].loaded =>
            LET raw == env_input[p].raw
                key == KeyOfRecord(meta_rows[1])
            IN /\ env_input[p].key = key
               /\ env_input[p].processed =
                     IF Len(raw) <= 256 \/ key = 0 THEN raw
                     ELSE decrypt_asset_data(raw, create_asset_final_key(key))
               /\ (Len(raw) <= 256 \/ key = 0) <=> env_input[p].processed = raw

\* A decrypted 300-byte payload was handed over.
C11_Witness ==
    /\ env_input[1].loaded
    /\ Len(env_input[1].raw) = 300
    /\ env_input[1].key = 999
    /\ env_input[1].processed # env_input[1].raw
    /\ \A i \in 1..256 : env_input[1].processed[i] = env_input[1].raw[i]

\* Pipeline p begins a call in this step.
Begins(p) == pipe'[p].calls = pipe[p].calls + 1

\* C14: ensure_asset_is_ready issues a network request only when the index
\* resolves the name, the local content path does not exist and the
\* auto-download flag is enabled; a call made when the file exists performs
\* no network I/O and returns the path of the hash; an unresolvable name
\* returns failure without network access; with the flag disabled a missing
\* file yields failure with no network access and no file or directory
\* created.
C14_NetworkOnlyWhenNeeded ==
    [][\A p \in Pipelines :
          LET info == get_asset_info(meta_rows, pipe'[p].name)
              failed == pipe'[p].pc = "idle" /\ pipe'[p].result = "none"
          IN /\ net_requests'[p] # net_requests[p] =>
                   /\ net_requests'[p] = net_requests[p] + 1
                   /\ Begins(p)
                   /\ info.found
                   /\ ~store.exists
                   /\ auto_download
             /\ (Begins(p) /\ ~info.found) =>
                   /\ failed
                   /\ UNCHANGED <<net_requests, store, dir_exists>>
             /\ (Begins(p) /\ info.found /\ store.exists) =>
                   /\ \/ pipe'[p].pc = "ensured"
                      \/ /\ pipe'[p].pc = "idle"
                         /\ pipe'[p].result = "path"
                         /\ pipe'[p].path = info.hash
                   /\ UNCHANGED <<net_requests, store, dir_exists>>
             /\ (Begins(p) /\ info.found /\ ~store.exists /\ ~auto_download) =>
                   /\ failed
                   /\ UNCHANGED <<net_requests, store, dir_exists>>
      ]_vars

\* The first call of pipeline 1 downloaded the file, its second call found
\* it and returned the path; one request in all.
C14_Witness ==
    /\ auto_download
    /\ pipe[1].calls = 2
    /\ pipe[1].pc = "idle"
    /\ pipe[1].result = "path"
    /\ pipe[1].path = meta_rows[1].h
    /\ net_requests[1] = 1
    /\ net_requests[2] = 0
    /\ Complete(store, meta_rows[1].h)

\* C15: whenever a download attempt ends without success, no file is left
\* at the local content path.
C15_FailedDownloadLeavesNoFile ==
    [][\A p \in Pipelines :
          (/\ pipe[p].pc \in {"requesting", "streaming"}
           /\ pipe'[p].pc = "idle"
           /\ pipe'[p].result \in {"none", "raised"})
          => ~store'.exists
      ]_vars

\* C16: when two pipelines ensure the same content hash at the same time,
\* their writes to the local content path do not interleave, and no pipeline
\* takes the path for ready while its contents are incomplete.
C16_ContentVisibleAtomically ==
    /\ \A p \in Pipelines : ~pipe[p].saw_partial
    /\ ~(\A p \in Pipelines : pipe[p].pc = "streaming" /\ pipe[p].linked)

\* C17: every ensure_asset_is_ready call eventually returns, also when the
\* origin never answers or stalls in the middle of the stream.
C17_EnsureEventuallyReturns ==
    (pipe[1].pc # "idle") ~> (pipe[1].pc = "idle")
\* C27: the voice cue reference stored in every extracted timeline block is
\* the effective (renumbered) cue id computed for that block, not the raw
\* cue id of its text clip.
C27_StoredCueIsEffective ==
    \A k \in DOMAIN timeline_blocks :
        HasValidCue(Processed(k)) =>
            timeline_blocks[k].voiceIdx = cue_log[k].final_cue_id

-----------------------------------------------------------------------------
(* Properties of the outcome of process_asset *)

\* The walker of the asset's type finds no expected structure in the bundle.
WalkerReturnsNoMatch == bundle.loads /\ ~walker(asset_type, bundle.texts).exists

\* C23: an asset whose walker returns no match is treated as having nothing
\* to extract; process_asset does not report it as failed.
C23_NoMatchIsNotAFailure == WalkerReturnsNoMatch => status # "failed"

\* C29: process_asset reports "failed" only when the bundle load, the walker,
\* the merge or one of the two output writes failed; when the bundle loads
\* and the walker returns a document the outcome is "success".
C29_FailedOnlyWhenAStepFailed ==
    status = "failed" =>
        ~bundle.loads \/ ~walker(asset_type, bundle.texts).exists

\* C30: after process_asset returned "failed" or "skipped" the workspace
\* record on disk is the one from before the call.
C30_FailedLeavesWorkspaceUnchanged ==
    status \in {"failed", "skipped"} => workspace_file = workspace_prev

-----------------------------------------------------------------------------
(* Properties of merge_translations: trimmed texts and choices *)

\* The existing blocks whose trimmed source text is that of `jp`.
SameTrimmedText(jp, old) ==
    {k \in DOMAIN old : strip(old[k].jpText) = strip(jp)}

\* C25: a new block whose trimmed source text is byte-identical to the
\* trimmed source text of an existing block receives that block's translated
\* text, whatever whitespace surrounds either text.  Stated for texts that
\* are not blank and have one such existing block.
C25_SameTrimmedTextIsCarried ==
    (merge_pc = "merged" /\ existing.exists) =>
        \A i \in DOMAIN new_before :
            LET jp  == new_before[i].jpText
                old == existing.text_blocks
            IN \A k \in SameTrimmedText(jp, old) :
                  (strip(jp) # <<>> /\ SameTrimmedText(jp, old) = {k})
                      => new_data[i].enText = old[k].enText

\* C26: when a translation is carried forward from existing block M to new
\* block N, N's i-th choice has the translated text of M's i-th choice for
\* every i both blocks have, N's choices beyond M's last keep the translated
\* text they had, and N has the choices it had, with their source texts, in
\* their order.
C26_ChoicesCopiedPositionally ==
    (merge_pc = "merged" /\ existing.exists) =>
        \A i \in matched :
            LET N   == new_data[i]
                B   == new_before[i]
                old == existing.text_blocks
            IN \E k \in Candidates(B.jpText, old) :
                  /\ N.enText = old[k].enText
                  /\ Len(N.choices) = Len(B.choices)
                  /\ \A c \in DOMAIN N.choices :
                        /\ N.choices[c].jpText = B.choices[c].jpText
                        /\ N.choices[c].enText =
                              IF c <= Len(old[k].choices)
                              THEN old[k].choices[c].enText
                              ELSE B.choices[c].enText

\* A block with two choices matched to an existing block with one: the first
\* choice took the existing choice's text, the second kept its own.
C26_Witness ==
    /\ merge_pc = "merged"
    /\ \E i \in matched :
          /\ Len(new_data[i].choices) = 2
          /\ new_before[i].choices[1].enText = ""
          /\ new_data[i].choices[1].enText = "C4"
          /\ new_data[i].choices[2].enText = "P"

-----------------------------------------------------------------------------
(* Properties of parse_uianimation: the root policy *)

\* The non-blank texts of the motion at list position i, as pairs of
\* motion_index and text_index.
TextUnitsOf(i) ==
    {<<i - 1, n - 1>> : n \in {t \in DOMAIN motion_param_list[i]._textParamList :
                                strip(motion_param_list[i]._textParamList[t]) # <<>>}}

\* C28, without a declared root: every motion of the parameter list, whatever
\* its id (id 0 included), is visited and each of its non-blank texts is
\* emitted with the motion's list index and the text's position.  Stated for
\* lists whose motions carry pairwise distinct ids.
C28_NoRootVisitsEveryMotion ==
    (/\ ui_pc = "done"
     /\ root_motion_id = 0
     /\ \A i, j \in DOMAIN motion_param_list :
           motion_param_list[i]._id = motion_param_list[j]._id => i = j)
    => {<<ui_blocks[k].motion_index, ui_blocks[k].text_index>> :
            k \in DOMAIN ui_blocks}
       = UNION {TextUnitsOf(i) : i \in DOMAIN motion_param_list}

-----------------------------------------------------------------------------
(* Properties of the walkers' documents *)

\* The element at position i (from 0) of the walked list is one the walker
\* makes a block of.
WellFormed(i) ==
    LET item == walk_items[i + 1]
    IN CASE walk_type = "home"   -> item.shape = "text"
         [] walk_type = "race"   -> item.is_text
         [] walk_type = "lyrics" -> Len(item) >= 2 /\ item[1] # <<>>
         [] OTHER                -> FALSE

\* C21: in a walker's document the block_index values are strictly
\* increasing in extraction order, and an index missing between two
\* consecutive blocks is that of a skipped element for which a line was
\* logged.  Stated for the documents of parse_home_timeline.
C21_BlockIndexIncreasingGapsLogged ==
    walk_type = "home" =>
        \A k \in 1..(Len(walk_blocks) - 1) :
            /\ walk_blocks[k].block_index < walk_blocks[k + 1].block_index
            /\ \A j \in (walk_blocks[k].block_index + 1)
                        ..(walk_blocks[k + 1].block_index - 1) :
                  \E l \in DOMAIN walk_log : walk_log[l].at = j

\* C22: an element that cannot be decoded is the only one lost: when the
\* walker has returned, every well-formed element of the list has its block
\* in the document, and a list with a well-formed element never yields None.
C22_MalformedElementOnlySkipsItself ==
    walk_result \in {"document", "none"} =>
        LET good == {i \in 0..(Len(walk_items) - 1) : WellFormed(i)}
        IN /\ Len(walk_blocks) = Cardinality(good)
           /\ good # {} => walk_result = "document"

-----------------------------------------------------------------------------
(* Properties of the batch run *)

\* C24: when a batch run has ended, every asset of the list has got one
\* outcome, in list order, and success + skipped + failed is the number of
\* assets in the list: no asset's error keeps the later assets from being
\* processed.
C24_EveryAssetGetsAnOutcome ==
    run_pc \in {"summary", "empty", "critical"} =>
        /\ Len(outcomes) = Len(assets_to_process)
        /\ results.success + results.skipped + results.failed
              = Len(assets_to_process)

=============================================================================
